---- MODULE Spec2Model ----
(***************************************************************************)
(* Streaming multipart/form-data parser (rust-multer): the incremental     *)
(* boundary state machine MultipartStream (src/parser/stream.rs), the      *)
(* Multipart facade that filters its parts through the selector engine and *)
(* the global limits (src/multipart.rs, src/selector.rs), and a chunk      *)
(* source that delivers one request body in arbitrary chunks.              *)
(*                                                                         *)
(* A byte of the wire is one token of a small alphabet: CR, LF, "-", the   *)
(* one-character boundary "B", the payload byte "x", and one token per     *)
(* header line ("Dn", "Du", "Dd", "Di", "Ci", "CI", "X").  All scanning the *)
(* parser does (find_subslice, take_line, the CRLF CRLF split, the         *)
(* delimiter search, the suffix classification) is done on these token     *)
(* sequences exactly as the code does it on bytes.                         *)
(***************************************************************************)
EXTENDS Integers, Sequences, FiniteSets, TLC

VARIABLES
  inner,        \* Multipart.inner : the MultipartStream (record of its fields)
  selector,     \* Multipart.selector : the SelectorEngine (record of its fields)
  limits,       \* Multipart.limits : Limits
  file_count,   \* Multipart.file_count
  field_count,  \* Multipart.field_count
  stream,       \* the chunk source S: bytes not yet delivered, ended, failed
  wire,         \* the request body the chunk source was created with
  parts,        \* the parts the body was composed from (what a client sent)
  innerOut,     \* what MultipartStream::poll_next has returned so far
  out,          \* what Multipart::poll_next (next_part) has returned so far
  given,        \* the argument a function called on its own is applied to
  calls,        \* the applications of functions called on their own, in order
  storage       \* a storage backend and the store calls running on it

vars == <<inner, selector, limits, file_count, field_count, stream, wire, parts,
          innerOut, out, given, calls, storage>>

----------------------------------------------------------------------------
(* Bounds of the model *)

\* most parts in one body
MaxParts == 2
\* the value a configured max_field_size takes; max_file_size is one more
SizeLimit == 1
\* longest run of payload bytes in one part body: one more than max_file_size
MaxBodyLen == SizeLimit + 2

\* most values next_part returns to one consumer before it stops calling
MaxCalls == MaxParts + 3

----------------------------------------------------------------------------
(* Bytes *)

CR == "CR"
LF == "LF"
DASH == "-"
CRLF == <<CR, LF>>

\* Option::None of the Option<u64> / Option<usize> limits
None == -1

\* Option::None of ParsedPartHeaders.file_name (Some("") is the empty string)
NoFileName == "<none>"

\* the boundary the parser is constructed with
boundary == <<"B">>

\* sentinels computed by MultipartStream::with_limits
boundary_line == <<DASH, DASH>> \o boundary
boundary_end_line == <<DASH, DASH>> \o boundary \o <<DASH, DASH>>
delimiter == CRLF \o <<DASH, DASH>> \o boundary

Min(S) == CHOOSE x \in S : \A y \in S : x <= y

\* the element of a one-element set; Only({e(v) : v \in {d}}) is e with v
\* bound to the value of d
Only(S) == CHOOSE x \in S : TRUE

saturating_sub(a, b) == IF a >= b THEN a - b ELSE 0

starts_with(s, prefix) ==
  /\ Len(s) >= Len(prefix)
  /\ SubSeq(s, 1, Len(prefix)) = prefix

\* s[from..] with a 0-based from, as the slice index of the code
SliceFrom(s, from) == SubSeq(s, from + 1, Len(s))

\* s[..to] with a 0-based exclusive end
SliceTo(s, to) == SubSeq(s, 1, to)

\* find_subslice: the 0-based index of the first occurrence, or None
find_subslice(haystack, needle) ==
  IF needle = <<>> THEN 0
  ELSE Only({IF hits = {} THEN None ELSE Min(hits) :
               hits \in {{i \in 0..(Len(haystack) - Len(needle)) :
                            SubSeq(haystack, i + 1, i + Len(needle)) = needle}}})

\* take_line: the first CRLF-terminated line, drained from the buffer
take_line(buffer) ==
  Only({IF split = None
        THEN [found |-> FALSE, line |-> <<>>, rest |-> buffer]
        ELSE [found |-> TRUE, line |-> SliceTo(buffer, split),
              rest |-> SliceFrom(buffer, split + 2)] :
          split \in {find_subslice(buffer, CRLF)}})

\* has_malformed_boundary_line
has_malformed_boundary_line(buffer) ==
  \E prefix \in {find_subslice(buffer, <<CR, LF, DASH, DASH>>)} :
    /\ prefix # None
    /\ \E line_start \in {prefix + 2} :
         \E relative_end \in {find_subslice(SliceFrom(buffer, line_start), CRLF)} :
           /\ relative_end # None
           /\ \E line \in {SubSeq(buffer, line_start + 1, line_start + relative_end)} :
                line # boundary_line /\ line # boundary_end_line

----------------------------------------------------------------------------
(* Part headers *)

\* header lines that are Content-Disposition: form-data lines
DispositionLines == {"Dn", "Du", "Dd", "Di"}
\* header lines that are Content-Type lines
ContentTypeLines == {"Ci", "CI"}
\* every token that is a well-formed "name: value" header line
HeaderLines == DispositionLines \cup ContentTypeLines

\* the lines of a header block: text.split("\r\n")
RECURSIVE split_lines(_)
split_lines(raw) ==
  Only({IF i = None THEN <<raw>>
        ELSE <<SliceTo(raw, i)>> \o split_lines(SliceFrom(raw, i + 2)) :
          i \in {find_subslice(raw, CRLF)}})

\* parse_header_block: empty lines are skipped, every other line must be a
\* header line, and a Content-Disposition line must be present
parse_header_block(raw) ==
  Only({IF \E l \in lines : ~(Len(l) = 1 /\ l[1] \in HeaderLines)
        THEN [ok |-> FALSE, err |-> "invalid part header line", headers |-> {}]
        ELSE IF {l[1] : l \in lines} \cap DispositionLines = {}
        THEN [ok |-> FALSE, err |-> "missing Content-Disposition header", headers |-> {}]
        ELSE [ok |-> TRUE, err |-> "", headers |-> {l[1] : l \in lines}] :
          lines \in {{l \in {ls[i] : i \in 1..Len(ls)} : l # <<>>} :
                      ls \in {split_lines(raw)}}})

\* the name parameter of a Content-Disposition line
disposition_name(tok) ==
  CASE tok = "Dn" -> "note"
    [] tok = "Du" -> "up"
    [] tok = "Dd" -> "doc"
    [] tok = "Di" -> "pic"

\* the filename parameter of a Content-Disposition line
disposition_filename(tok) ==
  CASE tok = "Dn" -> NoFileName
    [] tok = "Du" -> "a.bin"
    [] tok = "Dd" -> ""
    [] tok = "Di" -> "p.png"

\* the value of a Content-Type line, as the client wrote it
content_type_value(tok) ==
  CASE tok = "Ci" -> "image/png"
    [] tok = "CI" -> "IMAGE/PNG; q=1"

\* parse_part_headers: field name, file name and content type (with the
\* defaults text/plain and application/octet-stream) of a header map
parse_part_headers(h) ==
  Only({[field_name |-> disposition_name(d),
         file_name |-> disposition_filename(d),
         content_type |-> IF disposition_filename(d) = NoFileName THEN "text/plain"
                          ELSE IF h \cap ContentTypeLines # {}
                          THEN content_type_value(CHOOSE c \in ContentTypeLines : c \in h)
                          ELSE "application/octet-stream"] :
          d \in {CHOOSE t \in DispositionLines : t \in h}})

----------------------------------------------------------------------------
(* Items a stream yields *)

\* Some(Ok(ParsedPart { headers, body }))
OkPart(headers, body) ==
  [tag |-> "Part", kind |-> "", field_name |-> headers.field_name,
   file_name |-> headers.file_name, content_type |-> headers.content_type,
   body |-> body, limit |-> None]

\* Some(Err(e)); field and limit are the error's payload when it has one
ErrItem(kind, field, limit) ==
  [tag |-> "Err", kind |-> kind, field_name |-> field, file_name |-> NoFileName,
   content_type |-> "", body |-> <<>>, limit |-> limit]

\* Poll::Ready(None)
EndOfStream ==
  [tag |-> "None", kind |-> "", field_name |-> "", file_name |-> NoFileName,
   content_type |-> "", body |-> <<>>, limit |-> None]

\* size_limit_error
size_limit_error(field, is_file, limit) ==
  IF is_file THEN ErrItem("FileSizeLimitExceeded", field, limit)
  ELSE ErrItem("FieldSizeLimitExceeded", field, limit)

----------------------------------------------------------------------------
(* MultipartStream: the streaming state machine *)

\* MultipartStream::with_limits: the parser after construction
new_stream(stream_limits) ==
  [buffer |-> <<>>,
   state |-> "StartBoundary",
   current_headers |-> <<>>,          \* Option: <<>> is None, <<h>> is Some(h)
   current_part_max_size |-> None,
   current_part_is_file |-> FALSE,
   limits |-> stream_limits,
   received_body_bytes |-> 0,
   upstream_done |-> FALSE]

\* Headers: the per-part size limit chosen when the headers are parsed
part_max_size(is_file, stream_limits) ==
  IF is_file THEN stream_limits.max_file_size ELSE stream_limits.max_field_size

\* Headers: current_part_is_file
part_is_file(headers) == headers.file_name # NoFileName

\* a guaranteed body length that holds back one byte too many
guaranteed_body_len_short(buffer) == saturating_sub(Len(buffer), Len(delimiter))

\* a guaranteed body length that counts the whole buffer
guaranteed_body_len_whole(buffer) == Len(buffer)

\* Body, no delimiter yet: buffer.len().saturating_sub(delimiter.len() - 1)
guaranteed_body_len(buffer) ==
  LET max_tail == saturating_sub(Len(delimiter), 1)
  IN  saturating_sub(Len(buffer), max_tail)

\* the comparison of a body length with the per-part limit
over_limit(len, limit) == len > limit

\* a part body that keeps the CRLF of the delimiter
part_body_with_crlf(buffer, split) == SliceTo(buffer, split + 2)

\* Body, delimiter found at split: the bytes emitted as the part body
part_body(buffer, split) == SliceTo(buffer, split)

\* Body, delimiter found: classification of the bytes that follow it.
\* consumed is counted from suffix_start.
classify_suffix(boundary_suffix, upstream_done) ==
  IF starts_with(boundary_suffix, <<DASH, DASH, CR, LF>>)
  THEN [ok |-> TRUE, consumed |-> 4, is_terminal |-> TRUE]
  ELSE IF starts_with(boundary_suffix, CRLF)
  THEN [ok |-> TRUE, consumed |-> 2, is_terminal |-> FALSE]
  ELSE IF upstream_done /\ boundary_suffix = <<DASH, DASH>>
  THEN [ok |-> TRUE, consumed |-> 2, is_terminal |-> TRUE]
  ELSE [ok |-> FALSE, consumed |-> 0, is_terminal |-> FALSE]

NeedMore(s) == [self |-> s, outcome |-> "NeedMore", item |-> EndOfStream]
Emit(s, item) == [self |-> s, outcome |-> "Emit", item |-> item]
Done(s) == [self |-> s, outcome |-> "Done", item |-> EndOfStream]

\* a StartBoundary state that knows the opening boundary line only
start_boundary_closing_is_malformed(s) ==
  Only({IF ~t.found
        THEN [go |-> FALSE,
              r |-> IF s.upstream_done
                    THEN Emit(s, ErrItem("missing opening boundary", "", None))
                    ELSE NeedMore(s)]
        ELSE IF t.line = boundary_line
        THEN [go |-> TRUE, r |-> NeedMore([s EXCEPT !.buffer = t.rest, !.state = "Headers"])]
        ELSE [go |-> FALSE,
              r |-> Emit([s EXCEPT !.buffer = t.rest, !.state = "Failed"],
                         ErrItem("malformed opening boundary", "", None))] :
          t \in {take_line(s.buffer)}})

\* parse_available, state StartBoundary; the result carries go = TRUE when
\* the loop continues in the new state
start_boundary(s) ==
  Only({IF ~t.found
        THEN [go |-> FALSE,
              r |-> IF s.upstream_done
                    THEN Emit(s, ErrItem("missing opening boundary", "", None))
                    ELSE NeedMore(s)]
        ELSE IF t.line = boundary_line
        THEN [go |-> TRUE, r |-> NeedMore([s EXCEPT !.buffer = t.rest, !.state = "Headers"])]
        ELSE IF t.line = boundary_end_line
        THEN [go |-> TRUE, r |-> NeedMore([s EXCEPT !.buffer = t.rest, !.state = "End"])]
        ELSE [go |-> FALSE,
              r |-> Emit([s EXCEPT !.buffer = t.rest, !.state = "Failed"],
                         ErrItem("malformed opening boundary", "", None))] :
          t \in {take_line(s.buffer)}})

\* parse_available, state Headers
parsed_headers(s, rest, hb) ==
  IF ~hb.ok
  THEN [go |-> FALSE,
        r |-> Emit([s EXCEPT !.buffer = rest, !.state = "Failed"],
                   ErrItem(hb.err, "", None))]
  ELSE Only({[go |-> TRUE,
              r |-> NeedMore([s EXCEPT
                      !.buffer = rest,
                      !.current_headers = <<headers>>,
                      !.current_part_is_file = part_is_file(headers),
                      !.current_part_max_size = part_max_size(part_is_file(headers), s.limits),
                      !.state = "Body"])] :
               headers \in {parse_part_headers(hb.headers)}})

headers_state(s) ==
  Only({IF split = None THEN [go |-> FALSE, r |-> NeedMore(s)]
        ELSE Only({parsed_headers(s, SliceFrom(s.buffer, split + 4), hb) :
                     hb \in {parse_header_block(SliceTo(s.buffer, split))}}) :
          split \in {find_subslice(s.buffer, <<CR, LF, CR, LF>>)}})

\* a Body state that waits for the delimiter whatever dashed line it holds
body_without_delimiter_unchecked(s) ==
  IF /\ s.current_part_max_size # None
     /\ over_limit(guaranteed_body_len(s.buffer), s.current_part_max_size)
  THEN IF s.current_headers = <<>>
       THEN Emit([s EXCEPT !.state = "Failed"], ErrItem("missing part headers", "", None))
       ELSE Emit([s EXCEPT !.state = "Failed"],
                 size_limit_error(s.current_headers[1].field_name,
                                  s.current_part_is_file, s.current_part_max_size))
  ELSE NeedMore(s)

\* parse_available, state Body, no delimiter in the buffer
body_without_delimiter(s) ==
  IF /\ s.current_part_max_size # None
     /\ over_limit(guaranteed_body_len(s.buffer), s.current_part_max_size)
  THEN IF s.current_headers = <<>>
       THEN Emit([s EXCEPT !.state = "Failed"], ErrItem("missing part headers", "", None))
       ELSE Emit([s EXCEPT !.state = "Failed"],
                 size_limit_error(s.current_headers[1].field_name,
                                  s.current_part_is_file, s.current_part_max_size))
  ELSE IF has_malformed_boundary_line(s.buffer)
  THEN Emit([s EXCEPT !.state = "Failed"],
            ErrItem("malformed multipart boundary", "", None))
  ELSE NeedMore(s)

\* parse_available, state Body, delimiter found at index split: c is the
\* classified suffix, body the part body, drained the parser after
\* buffer.drain(..consumed)
resolved_body(s, c, body, drained) ==
      IF ~c.ok
      THEN Emit([s EXCEPT !.state = "Failed"],
                ErrItem("malformed multipart boundary", "", None))
      ELSE IF /\ s.current_part_max_size # None
              /\ over_limit(Len(body), s.current_part_max_size)
      THEN IF s.current_headers = <<>>
           THEN Emit([drained EXCEPT !.state = "Failed"],
                     ErrItem("missing part headers", "", None))
           ELSE Emit([drained EXCEPT !.state = "Failed"],
                     size_limit_error(s.current_headers[1].field_name,
                                      s.current_part_is_file, s.current_part_max_size))
      ELSE IF s.current_headers = <<>>
      THEN Emit([drained EXCEPT !.state = "Failed"],
                ErrItem("missing part headers", "", None))
      ELSE Emit([drained EXCEPT
                   !.current_headers = <<>>,
                   !.current_part_max_size = None,
                   !.current_part_is_file = FALSE,
                   !.state = IF c.is_terminal THEN "End" ELSE "Headers"],
                OkPart(s.current_headers[1], body))

body_with_delimiter(s, split) ==
  Only({resolved_body(s, c, body,
                      [s EXCEPT !.buffer = SliceFrom(s.buffer, split + Len(delimiter) + c.consumed)]) :
          c \in {classify_suffix(SliceFrom(s.buffer, split + Len(delimiter)), s.upstream_done)},
          body \in {part_body(s.buffer, split)}})

\* the 0-based index of the last occurrence, or None
rfind_subslice(haystack, needle) ==
  Only({IF hits = {} THEN None ELSE -Min({-i : i \in hits}) :
          hits \in {{i \in 0..(Len(haystack) - Len(needle)) :
                       SubSeq(haystack, i + 1, i + Len(needle)) = needle}}})

\* a Body state that searches the delimiter from the end of the buffer
body_state_rfind(s) ==
  Only({IF split = None THEN body_without_delimiter(s)
        ELSE body_with_delimiter(s, split) :
          split \in {rfind_subslice(s.buffer, delimiter)}})

\* parse_available, state Body
body_state(s) ==
  Only({IF split = None THEN body_without_delimiter(s)
        ELSE body_with_delimiter(s, split) :
          split \in {find_subslice(s.buffer, delimiter)}})

\* MultipartStream::parse_available: the loop over the parse state
RECURSIVE parse_available(_)
parse_available(s) ==
  CASE s.state = "StartBoundary" ->
         Only({IF x.go THEN parse_available(x.r.self) ELSE x.r :
                 x \in {start_boundary(s)}})
    [] s.state = "Headers" ->
         Only({IF x.go THEN parse_available(x.r.self) ELSE x.r :
                 x \in {headers_state(s)}})
    [] s.state = "Body" -> body_state(s)
    [] s.state = "End" -> Done(s)
    [] s.state = "Failed" -> Done(s)

\* the parse states one parse_available call goes through, the state it
\* starts in first and the state it returns in last
RECURSIVE states_visited(_)
states_visited(s) ==
  CASE s.state = "StartBoundary" ->
         Only({IF x.go THEN <<s.state>> \o states_visited(x.r.self)
               ELSE <<s.state, x.r.self.state>> :
                 x \in {start_boundary(s)}})
    [] s.state = "Headers" ->
         Only({IF x.go THEN <<s.state>> \o states_visited(x.r.self)
               ELSE <<s.state, x.r.self.state>> :
                 x \in {headers_state(s)}})
    [] s.state = "Body" -> <<s.state, body_state(s).self.state>>
    [] s.state = "End" -> <<s.state>>
    [] s.state = "Failed" -> <<s.state>>

\* what polling the chunk source returned
Chunk(bytes) == [kind |-> "chunk", bytes |-> bytes]
UpstreamEnd == [kind |-> "end", bytes |-> <<>>]
UpstreamErr == [kind |-> "err", bytes |-> <<>>]

\* a running total that forgets the chunks before this one
next_received_last(received_body_bytes, chunk) == Len(chunk)

\* poll_next: the running total after a chunk, saturating_add on u64
next_received(received_body_bytes, chunk) == received_body_bytes + Len(chunk)

\* poll_next: a non-empty chunk arrived
receive_chunk(s, chunk) ==
  IF s.limits.max_body_size # None
  THEN Only({IF next > s.limits.max_body_size
             THEN [self |-> [s EXCEPT !.state = "Failed"], ret |-> "Item",
                   item |-> ErrItem("BodySizeLimitExceeded", "", s.limits.max_body_size),
                   pulled |-> TRUE]
             ELSE [self |-> [s EXCEPT !.received_body_bytes = next,
                                      !.buffer = s.buffer \o chunk],
                   ret |-> "Loop", item |-> EndOfStream, pulled |-> TRUE] :
               next \in {next_received(s.received_body_bytes, chunk)}})
  ELSE [self |-> [s EXCEPT !.buffer = s.buffer \o chunk],
        ret |-> "Loop", item |-> EndOfStream, pulled |-> TRUE]

\* an after_parse that takes an empty chunk for the end of the chunk source
after_parse_empty_is_end(r, up) ==
      IF r.outcome = "Emit"
      THEN [self |-> r.self, ret |-> "Item", item |-> r.item, pulled |-> FALSE]
      ELSE IF r.outcome = "Done"
      THEN [self |-> r.self, ret |-> "None", item |-> EndOfStream, pulled |-> FALSE]
      ELSE IF r.self.upstream_done
      THEN [self |-> [r.self EXCEPT !.state = "Failed"], ret |-> "Item",
            item |-> ErrItem("IncompleteStream", "", None), pulled |-> FALSE]
      ELSE CASE up.kind = "chunk" ->
                  IF up.bytes # <<>> THEN receive_chunk(r.self, up.bytes)
                  ELSE [self |-> [r.self EXCEPT !.upstream_done = TRUE], ret |-> "Loop",
                        item |-> EndOfStream, pulled |-> TRUE]
             [] up.kind = "err" ->
                  [self |-> [r.self EXCEPT !.state = "Failed"], ret |-> "Item",
                   item |-> ErrItem("Upstream", "", None), pulled |-> TRUE]
             [] up.kind = "end" ->
                  [self |-> [r.self EXCEPT !.upstream_done = TRUE], ret |-> "Loop",
                   item |-> EndOfStream, pulled |-> TRUE]

\* an after_parse that returns the chunk source's error and stays in its state
after_parse_unfailed(r, up) ==
      IF r.outcome = "Emit"
      THEN [self |-> r.self, ret |-> "Item", item |-> r.item, pulled |-> FALSE]
      ELSE IF r.outcome = "Done"
      THEN [self |-> r.self, ret |-> "None", item |-> EndOfStream, pulled |-> FALSE]
      ELSE IF r.self.upstream_done
      THEN [self |-> [r.self EXCEPT !.state = "Failed"], ret |-> "Item",
            item |-> ErrItem("IncompleteStream", "", None), pulled |-> FALSE]
      ELSE CASE up.kind = "chunk" ->
                  IF up.bytes # <<>> THEN receive_chunk(r.self, up.bytes)
                  ELSE [self |-> r.self, ret |-> "Loop", item |-> EndOfStream,
                        pulled |-> TRUE]
             [] up.kind = "err" ->
                  [self |-> r.self, ret |-> "Item",
                   item |-> ErrItem("Upstream", "", None), pulled |-> TRUE]
             [] up.kind = "end" ->
                  [self |-> [r.self EXCEPT !.upstream_done = TRUE], ret |-> "Loop",
                   item |-> EndOfStream, pulled |-> TRUE]

\* an after_parse that starts over once the parser is done
after_parse_rearmed(r, up) ==
      IF r.outcome = "Emit"
      THEN [self |-> r.self, ret |-> "Item", item |-> r.item, pulled |-> FALSE]
      ELSE IF r.outcome = "Done"
      THEN [self |-> [r.self EXCEPT !.state = "StartBoundary"], ret |-> "None",
            item |-> EndOfStream, pulled |-> FALSE]
      ELSE IF r.self.upstream_done
      THEN [self |-> [r.self EXCEPT !.state = "Failed"], ret |-> "Item",
            item |-> ErrItem("IncompleteStream", "", None), pulled |-> FALSE]
      ELSE CASE up.kind = "chunk" ->
                  IF up.bytes # <<>> THEN receive_chunk(r.self, up.bytes)
                  ELSE [self |-> r.self, ret |-> "Loop", item |-> EndOfStream,
                        pulled |-> TRUE]
             [] up.kind = "err" ->
                  [self |-> [r.self EXCEPT !.state = "Failed"], ret |-> "Item",
                   item |-> ErrItem("Upstream", "", None), pulled |-> TRUE]
             [] up.kind = "end" ->
                  [self |-> [r.self EXCEPT !.upstream_done = TRUE], ret |-> "Loop",
                   item |-> EndOfStream, pulled |-> TRUE]

\* an after_parse that polls the chunk source when the parser is done
after_parse_polls_when_done(r, up) ==
      IF r.outcome = "Emit"
      THEN [self |-> r.self, ret |-> "Item", item |-> r.item, pulled |-> FALSE]
      ELSE IF r.outcome = "Done"
      THEN [self |-> r.self, ret |-> "None", item |-> EndOfStream, pulled |-> TRUE]
      ELSE IF r.self.upstream_done
      THEN [self |-> [r.self EXCEPT !.state = "Failed"], ret |-> "Item",
            item |-> ErrItem("IncompleteStream", "", None), pulled |-> FALSE]
      ELSE CASE up.kind = "chunk" ->
                  IF up.bytes # <<>> THEN receive_chunk(r.self, up.bytes)
                  ELSE [self |-> r.self, ret |-> "Loop", item |-> EndOfStream,
                        pulled |-> TRUE]
             [] up.kind = "err" ->
                  [self |-> [r.self EXCEPT !.state = "Failed"], ret |-> "Item",
                   item |-> ErrItem("Upstream", "", None), pulled |-> TRUE]
             [] up.kind = "end" ->
                  [self |-> [r.self EXCEPT !.upstream_done = TRUE], ret |-> "Loop",
                   item |-> EndOfStream, pulled |-> TRUE]

\* MultipartStream::poll_next, one iteration of its loop, after r =
\* parse_available(). up is what the chunk source returns if this iteration
\* polls it (pulled = TRUE).
\* ret: "Item" = Ready(Some(item)), "None" = Ready(None), "Loop" = next iteration
after_parse(r, up) ==
      IF r.outcome = "Emit"
      THEN [self |-> r.self, ret |-> "Item", item |-> r.item, pulled |-> FALSE]
      ELSE IF r.outcome = "Done"
      THEN [self |-> r.self, ret |-> "None", item |-> EndOfStream, pulled |-> FALSE]
      ELSE IF r.self.upstream_done
      THEN [self |-> [r.self EXCEPT !.state = "Failed"], ret |-> "Item",
            item |-> ErrItem("IncompleteStream", "", None), pulled |-> FALSE]
      ELSE CASE up.kind = "chunk" ->
                  IF up.bytes # <<>> THEN receive_chunk(r.self, up.bytes)
                  ELSE [self |-> r.self, ret |-> "Loop", item |-> EndOfStream,
                        pulled |-> TRUE]
             [] up.kind = "err" ->
                  [self |-> [r.self EXCEPT !.state = "Failed"], ret |-> "Item",
                   item |-> ErrItem("Upstream", "", None), pulled |-> TRUE]
             [] up.kind = "end" ->
                  [self |-> [r.self EXCEPT !.upstream_done = TRUE], ret |-> "Loop",
                   item |-> EndOfStream, pulled |-> TRUE]

stream_poll_next(s, up) == Only({after_parse(r, up) : r \in {parse_available(s)}})

----------------------------------------------------------------------------
(* SelectorEngine *)

\* Selector::Single { name }, Array { name, max_count }, Fields(list), None, Any
SelectSingle(name) == [kind |-> "Single", name |-> name, max_count |-> None, fields |-> <<>>]
SelectArray(name, max_count) ==
  [kind |-> "Array", name |-> name, max_count |-> max_count, fields |-> <<>>]
SelectFields(list) == [kind |-> "Fields", name |-> "", max_count |-> None, fields |-> list]
SelectNone == [kind |-> "None", name |-> "", max_count |-> None, fields |-> <<>>]
SelectAny == [kind |-> "Any", name |-> "", max_count |-> None, fields |-> <<>>]

\* SelectedField: FileField / TextField converted by From<..> for SelectedField
FileField(name, max_count, mimes) ==
  [name |-> name, kind |-> "File", max_count |-> max_count, max_size |-> None,
   allowed_mime_types |-> mimes]
TextField(name, max_size) ==
  [name |-> name, kind |-> "Text", max_count |-> None, max_size |-> max_size,
   allowed_mime_types |-> {}]

\* build_fields_map: name -> FieldRules, a later entry replacing an earlier one
build_fields_map(sel) ==
  IF sel.kind = "Fields"
  THEN LET names == {sel.fields[i].name : i \in 1..Len(sel.fields)}
           last(n) == CHOOSE i \in 1..Len(sel.fields) :
                        /\ sel.fields[i].name = n
                        /\ \A j \in 1..Len(sel.fields) : sel.fields[j].name = n => j <= i
       IN  [n \in names |-> sel.fields[last(n)]]
  ELSE [n \in {} |-> 0]

\* SelectorEngine::new
new_selector(sel, policy) ==
  [selector |-> sel,
   unknown_field_policy |-> policy,
   counts |-> [n \in {} |-> 0],
   fields |-> build_fields_map(sel)]

\* a handle_unknown_field that ignores under either policy
handle_unknown_field_lenient(eng, field_name) ==
  [engine |-> eng, action |-> "Ignore", err |-> EndOfStream]

\* a handle_unknown_field that rejects under either policy
handle_unknown_field_strict(eng, field_name) ==
  [engine |-> eng, action |-> "Err", err |-> ErrItem("UnexpectedField", field_name, None)]

\* handle_unknown_field
handle_unknown_field(eng, field_name) ==
  IF eng.unknown_field_policy = "Reject"
  THEN [engine |-> eng, action |-> "Err",
        err |-> ErrItem("UnexpectedField", field_name, None)]
  ELSE [engine |-> eng, action |-> "Ignore", err |-> EndOfStream]

\* a record_with_limit that refuses the evaluation that reaches the cap
record_with_limit_early(eng, field_name, max_count) ==
  Only({IF max_count # None /\ next >= max_count
        THEN [engine |-> eng, action |-> "Err",
              err |-> ErrItem("FieldCountLimitExceeded", field_name, max_count)]
        ELSE [engine |-> [eng EXCEPT !.counts =
                            [n \in DOMAIN eng.counts \cup {field_name} |->
                               IF n = field_name THEN next ELSE eng.counts[n]]],
              action |-> "Accept", err |-> EndOfStream] :
          next \in {(IF field_name \in DOMAIN eng.counts THEN eng.counts[field_name] ELSE 0) + 1}})

\* a record_with_limit that counts the evaluation before it compares
record_with_limit_counting(eng, field_name, max_count) ==
  Only({[engine |-> [eng EXCEPT !.counts =
                       [n \in DOMAIN eng.counts \cup {field_name} |->
                          IF n = field_name THEN next ELSE eng.counts[n]]],
         action |-> IF max_count # None /\ next > max_count THEN "Err" ELSE "Accept",
         err |-> IF max_count # None /\ next > max_count
                 THEN ErrItem("FieldCountLimitExceeded", field_name, max_count)
                 ELSE EndOfStream] :
          next \in {(IF field_name \in DOMAIN eng.counts THEN eng.counts[field_name] ELSE 0) + 1}})

\* record_with_limit followed by Ok(SelectorAction::Accept)
record_with_limit(eng, field_name, max_count) ==
  Only({IF max_count # None /\ next > max_count
        THEN [engine |-> eng, action |-> "Err",
              err |-> ErrItem("FieldCountLimitExceeded", field_name, max_count)]
        ELSE [engine |-> [eng EXCEPT !.counts =
                            [n \in DOMAIN eng.counts \cup {field_name} |->
                               IF n = field_name THEN next ELSE eng.counts[n]]],
              action |-> "Accept", err |-> EndOfStream] :
          next \in {(IF field_name \in DOMAIN eng.counts THEN eng.counts[field_name] ELSE 0) + 1}})

\* an evaluate_text_field that accepts every name
evaluate_text_field_any(eng, field_name) ==
  [engine |-> eng, action |-> "Accept", err |-> EndOfStream]

\* evaluate_text_field (&self: the engine is returned as it was)
evaluate_text_field(eng, field_name) ==
  IF eng.selector.kind = "Fields"
  THEN IF field_name \notin DOMAIN eng.fields THEN handle_unknown_field(eng, field_name)
       ELSE IF eng.fields[field_name].kind # "Text"
       THEN handle_unknown_field(eng, field_name)
       ELSE [engine |-> eng, action |-> "Accept", err |-> EndOfStream]
  ELSE [engine |-> eng, action |-> "Accept", err |-> EndOfStream]

\* evaluate_file_field
evaluate_file_field(eng, field_name) ==
  CASE eng.selector.kind = "Single" ->
         IF field_name # eng.selector.name THEN handle_unknown_field(eng, field_name)
         ELSE record_with_limit(eng, field_name, 1)
    [] eng.selector.kind = "Array" ->
         IF field_name # eng.selector.name THEN handle_unknown_field(eng, field_name)
         ELSE record_with_limit(eng, field_name, eng.selector.max_count)
    [] eng.selector.kind = "Fields" ->
         IF field_name \notin DOMAIN eng.fields THEN handle_unknown_field(eng, field_name)
         ELSE IF eng.fields[field_name].kind # "File"
         THEN handle_unknown_field(eng, field_name)
         ELSE record_with_limit(eng, field_name, eng.fields[field_name].max_count)
    [] eng.selector.kind = "None" -> handle_unknown_field(eng, field_name)
    [] eng.selector.kind = "Any" ->
         [engine |-> eng, action |-> "Accept", err |-> EndOfStream]

----------------------------------------------------------------------------
(* Limits *)

\* Limits::default
default_limits ==
  [max_file_size |-> None, max_field_size |-> None, max_body_size |-> None,
   max_files |-> None, max_fields |-> None, allowed_mime_types |-> {}]

\* Mime::essence_str: type/subtype in lower case, without the parameters
essence_str(content_type) ==
  CASE content_type = "IMAGE/PNG; q=1" -> "image/png"
    [] content_type \in {"image/png", "text/plain", "application/octet-stream"}
         -> content_type

\* str::to_ascii_lowercase of a pattern
to_ascii_lowercase(pattern) ==
  CASE pattern = "IMAGE/PNG" -> "image/png"
    [] pattern = "Image/*" -> "image/*"
    [] pattern \in {"image/png", "image/*", "text/plain", "text/*",
                    "application/octet-stream", "application/*"} -> pattern

\* the wildcard pattern type/* of an essence type/subtype
mime_wildcard(essence) ==
  CASE essence = "image/png" -> "image/*"
    [] essence = "text/plain" -> "text/*"
    [] essence = "application/octet-stream" -> "application/*"

\* one pattern against an essence: the exact essence, or type/* for its type
mime_matches(pattern, essence) ==
  \/ pattern = essence
  \/ pattern = mime_wildcard(essence)

\* Limits::is_mime_allowed
is_mime_allowed(lim, content_type) ==
  \/ lim.allowed_mime_types = {}
  \/ \E pattern \in lim.allowed_mime_types :
       mime_matches(to_ascii_lowercase(pattern), essence_str(content_type))

----------------------------------------------------------------------------
(* Multipart: the facade *)

\* Multipart::with_config: the stream limits handed to the parser
stream_limits_of(lim) ==
  [max_file_size |-> lim.max_file_size,
   max_field_size |-> lim.max_field_size,
   max_body_size |-> lim.max_body_size]

\* a field counter that is never incremented
counted_fields_stuck(count) == count

\* validate_text_part: the field counter after a text part within its size
counted_fields(count) == count + 1

\* validate_text_part: the facade fields after the call and its result
validate_text_part(m, part) ==
  IF m.limits.max_field_size # None /\ Len(part.body) > m.limits.max_field_size
  THEN [m |-> m, ok |-> FALSE,
        err |-> ErrItem("FieldSizeLimitExceeded", part.field_name, m.limits.max_field_size)]
  ELSE Only({IF m.limits.max_fields # None /\ m1.field_count > m.limits.max_fields
             THEN [m |-> m1, ok |-> FALSE,
                   err |-> ErrItem("FieldsLimitExceeded", "", m.limits.max_fields)]
             ELSE [m |-> m1, ok |-> TRUE, err |-> EndOfStream] :
               m1 \in {[m EXCEPT !.field_count = counted_fields(m.field_count)]}})

\* a file counter that is never incremented
counted_files_stuck(count) == count

\* validate_file_part: the file counter after a file that passed size and MIME
counted_files(count) == count + 1

\* validate_file_part: the comparison of the file counter with max_files
files_over_limit(count, max_files) == count > max_files

\* a validate_file_part without the MIME allow-list
validate_file_part_any_mime(m, part) ==
  IF m.limits.max_file_size # None /\ Len(part.body) > m.limits.max_file_size
  THEN [m |-> m, ok |-> FALSE,
        err |-> ErrItem("FileSizeLimitExceeded", part.field_name, m.limits.max_file_size)]
  ELSE Only({IF m.limits.max_files # None /\ files_over_limit(m1.file_count, m.limits.max_files)
             THEN [m |-> m1, ok |-> FALSE,
                   err |-> ErrItem("FilesLimitExceeded", "", m.limits.max_files)]
             ELSE [m |-> m1, ok |-> TRUE, err |-> EndOfStream] :
               m1 \in {[m EXCEPT !.file_count = counted_files(m.file_count)]}})

\* a validate_file_part that counts the file before it looks at its type
validate_file_part_counts_first(m, part) ==
  IF m.limits.max_file_size # None /\ Len(part.body) > m.limits.max_file_size
  THEN [m |-> m, ok |-> FALSE,
        err |-> ErrItem("FileSizeLimitExceeded", part.field_name, m.limits.max_file_size)]
  ELSE Only({IF ~is_mime_allowed(m.limits, part.content_type)
             THEN [m |-> m1, ok |-> FALSE,
                   err |-> [ErrItem("MimeTypeNotAllowed", part.field_name, None)
                              EXCEPT !.content_type = essence_str(part.content_type)]]
             ELSE IF m.limits.max_files # None /\ files_over_limit(m1.file_count, m.limits.max_files)
             THEN [m |-> m1, ok |-> FALSE,
                   err |-> ErrItem("FilesLimitExceeded", "", m.limits.max_files)]
             ELSE [m |-> m1, ok |-> TRUE, err |-> EndOfStream] :
               m1 \in {[m EXCEPT !.file_count = counted_files(m.file_count)]}})

\* validate_file_part
validate_file_part(m, part) ==
  IF m.limits.max_file_size # None /\ Len(part.body) > m.limits.max_file_size
  THEN [m |-> m, ok |-> FALSE,
        err |-> ErrItem("FileSizeLimitExceeded", part.field_name, m.limits.max_file_size)]
  ELSE IF ~is_mime_allowed(m.limits, part.content_type)
  THEN [m |-> m, ok |-> FALSE,
        err |-> [ErrItem("MimeTypeNotAllowed", part.field_name, None)
                   EXCEPT !.content_type = essence_str(part.content_type)]]
  ELSE Only({IF m.limits.max_files # None /\ files_over_limit(m1.file_count, m.limits.max_files)
             THEN [m |-> m1, ok |-> FALSE,
                   err |-> ErrItem("FilesLimitExceeded", "", m.limits.max_files)]
             ELSE [m |-> m1, ok |-> TRUE, err |-> EndOfStream] :
               m1 \in {[m EXCEPT !.file_count = counted_files(m.file_count)]}})

\* a facade that asks the selector about text parts too
facade_part_selects_text(m, part) ==
  Only({CASE e.action = "Accept" ->
               Only({[m |-> v.m, ret |-> "Item", item |-> IF v.ok THEN part ELSE v.err] :
                       v \in {IF part.file_name = NoFileName
                              THEN validate_text_part([m EXCEPT !.selector = e.engine], part)
                              ELSE validate_file_part([m EXCEPT !.selector = e.engine], part)}})
          [] e.action = "Ignore" ->
               [m |-> [m EXCEPT !.selector = e.engine], ret |-> "Loop", item |-> EndOfStream]
          [] e.action = "Err" ->
               [m |-> [m EXCEPT !.selector = e.engine], ret |-> "Item", item |-> e.err] :
          e \in {IF part.file_name = NoFileName
                 THEN evaluate_text_field(m.selector, part.field_name)
                 ELSE evaluate_file_field(m.selector, part.field_name)}})

\* Multipart::poll_next, Ready(Some(Ok(parsed))) arm: what the facade does
\* with a part the parser emitted. ret "Loop" is the `continue` of the loop.
facade_part(m, part) ==
  IF part.file_name = NoFileName
  THEN Only({[m |-> v.m, ret |-> "Item", item |-> IF v.ok THEN part ELSE v.err] :
               v \in {validate_text_part(m, part)}})
  ELSE Only({CASE e.action = "Accept" ->
                    Only({[m |-> v.m, ret |-> "Item", item |-> IF v.ok THEN part ELSE v.err] :
                            v \in {validate_file_part([m EXCEPT !.selector = e.engine], part)}})
               [] e.action = "Ignore" ->
                    [m |-> [m EXCEPT !.selector = e.engine], ret |-> "Loop", item |-> EndOfStream]
               [] e.action = "Err" ->
                    [m |-> [m EXCEPT !.selector = e.engine], ret |-> "Item", item |-> e.err] :
               e \in {evaluate_file_field(m.selector, part.field_name)}})

\* Multipart::poll_next, one iteration of its loop: one iteration of the
\* parser's poll loop and the facade's handling of what it returned
multipart_poll_next(m, up) ==
  Only({IF r.ret = "Item" /\ r.item.tag = "Part"
        THEN Only({[m |-> f.m, ret |-> f.ret, item |-> f.item,
                    inner_ret |-> r.ret, inner_item |-> r.item, pulled |-> r.pulled] :
                     f \in {facade_part([m EXCEPT !.inner = r.self], r.item)}})
        ELSE [m |-> [m EXCEPT !.inner = r.self], ret |-> r.ret, item |-> r.item,
              inner_ret |-> r.ret, inner_item |-> r.item, pulled |-> r.pulled] :
          r \in {stream_poll_next(m.inner, up)}})

----------------------------------------------------------------------------
(* Storage *)

\* StorageEngine::store of the built-in backends: the chunks of the part are
\* concatenated (memory) or streamed to a file while tracking the size (disk)
stored_file(part) ==
  [field_name |-> part.field_name, file_name |-> part.file_name,
   content_type |-> part.content_type, size |-> Len(part.body)]

\* Part::text: the body decoded as UTF-8, character by character
text_char(byte) ==
  CASE byte = "x" -> "x"
    [] byte = CR -> "\r"
    [] byte = LF -> "\n"
    [] byte = DASH -> "-"
    [] byte = "B" -> "B"
text(body) == [i \in 1..Len(body) |-> text_char(body[i])]

\* ProcessedMultipart::default(), and the value parse_and_store returns:
\* "Ok" with the two lists, "Err" with the error, "Pending" while it awaits
ProcessedMultipart == [stored_files |-> <<>>, text_fields |-> <<>>]
Processed(status, acc, err) ==
  [status |-> status, stored_files |-> acc.stored_files,
   text_fields |-> acc.text_fields, err |-> err]

\* a parse_and_store that puts each result in front of its list
RECURSIVE parse_and_store_front(_, _)
parse_and_store_front(items, acc) ==
  IF items = <<>> THEN Processed("Pending", acc, EndOfStream)
  ELSE IF Head(items).tag = "None" THEN Processed("Ok", acc, EndOfStream)
  ELSE IF Head(items).tag = "Err" THEN Processed("Err", ProcessedMultipart, Head(items))
  ELSE IF Head(items).file_name # NoFileName
  THEN parse_and_store_front(Tail(items),
         [acc EXCEPT !.stored_files = <<stored_file(Head(items))>> \o @])
  ELSE parse_and_store_front(Tail(items),
         [acc EXCEPT !.text_fields =
            <<<<Head(items).field_name, text(Head(items).body)>>>> \o @])

\* Multer::parse_and_store: the loop over what next_part returns (items), acc
\* being `out`; the first error ends it (the `?` operators)
RECURSIVE parse_and_store(_, _)
parse_and_store(items, acc) ==
  IF items = <<>> THEN Processed("Pending", acc, EndOfStream)
  ELSE IF Head(items).tag = "None" THEN Processed("Ok", acc, EndOfStream)
  ELSE IF Head(items).tag = "Err" THEN Processed("Err", ProcessedMultipart, Head(items))
  ELSE IF Head(items).file_name # NoFileName
  THEN parse_and_store(Tail(items),
         [acc EXCEPT !.stored_files = Append(@, stored_file(Head(items)))])
  ELSE parse_and_store(Tail(items),
         [acc EXCEPT !.text_fields =
            Append(@, <<Head(items).field_name, text(Head(items).body)>>)])

----------------------------------------------------------------------------
(* Request bodies *)

\* n payload bytes
Payload(n) == [i \in 1..n |-> "x"]

Part(hdr, body) == [hdr |-> hdr, body |-> body]

\* header blocks: a text part "note"; a file part "up" without Content-Type;
\* a file part "doc" whose filename is the empty string; a file part "pic"
\* with Content-Type: image/png
TextHeaders == <<"Dn">>
FileHeaders == <<"Du">>
DocHeaders == <<"Dd">>
ImageHeaders == <<"Di", CR, LF, "Ci">>
\* the file part "pic" with Content-Type: IMAGE/PNG; q=1
ImageUpperHeaders == <<"Di", CR, LF, "CI">>
\* header blocks the header parser rejects: a line without a colon, and a
\* block without Content-Disposition
BrokenHeaders == {<<"X">>, <<"Ci">>}

\* part bodies: runs of payload bytes, and a body that holds CRLF and dashes
Payloads == {Payload(n) : n \in 0..MaxBodyLen}
DashedPayload == <<CR, LF, DASH, DASH>>

\* the parts a body of several parts is composed of
PlainParts ==
  {Part(TextHeaders, Payload(1)), Part(FileHeaders, Payload(1)),
   Part(ImageHeaders, Payload(1))}

\* the parts a body of one part may also hold
LoneParts ==
  {Part(h, b) : h \in {TextHeaders, FileHeaders}, b \in Payloads \cup {DashedPayload}}
  \cup {Part(DocHeaders, b) : b \in Payloads}
  \cup {Part(ImageUpperHeaders, Payload(1))}
  \cup {Part(h, Payload(1)) : h \in BrokenHeaders}

PartLists ==
  UNION {[1..k -> PlainParts] : k \in 0..MaxParts} \cup {<<p>> : p \in LoneParts}

\* the wire form of one part, from its headers through the delimiter that ends it
RECURSIVE EncodeParts(_)
EncodeParts(ps) ==
  IF ps = <<>> THEN <<>>
  ELSE Head(ps).hdr \o CRLF \o CRLF \o Head(ps).body \o delimiter
       \o (IF Len(ps) > 1 THEN CRLF ELSE <<>>) \o EncodeParts(Tail(ps))

\* the wire form of a body; closed = the closing boundary line ends in CRLF
Encode(ps, closed) ==
  (IF ps = <<>> THEN boundary_line ELSE boundary_line \o CRLF \o EncodeParts(ps))
  \o <<DASH, DASH>> \o (IF closed THEN CRLF ELSE <<>>)

\* a body whose first line is not a boundary line
Garbage == <<"x", CR, LF>>

\* the bytes the chunk source has delivered so far
Sent == SubSeq(wire, 1, Len(wire) - Len(stream.rest))

----------------------------------------------------------------------------
(* Configurations *)

\* the value a configured count limit (max_files, max_fields, max_count) takes
CountLimit == 1

\* the value a configured max_body_size takes: the length of a body of one
\* text part of SizeLimit bytes
BodyLimit == Len(Encode(<<Part(TextHeaders, Payload(SizeLimit))>>, TRUE))

SizeLimits ==
  [default_limits EXCEPT !.max_file_size = SizeLimit + 1, !.max_field_size = SizeLimit]
CountLimits ==
  [default_limits EXCEPT !.max_files = CountLimit, !.max_fields = CountLimit]

\* the limits a Multipart is configured with: none, the per-part sizes, the
\* body size, the part counts, a MIME allow-list (a wildcard, an exact type)
LimitChoices ==
  {default_limits,
   SizeLimits,
   [default_limits EXCEPT !.max_body_size = BodyLimit],
   CountLimits,
   [default_limits EXCEPT !.allowed_mime_types = {"image/*"}],
   [default_limits EXCEPT !.allowed_mime_types = {"IMAGE/PNG"}]}

Config(sel, policy, lim) == [selector |-> sel, unknown_field_policy |-> policy, limits |-> lim]

\* Multipart::new (Selector::any(), Ignore) with each choice of limits
PermissiveConfigs == {Config(SelectAny, "Ignore", l) : l \in LimitChoices}

\* configurations whose selector does not accept every file part
SelectiveConfigs ==
  {Config(SelectSingle("up"), "Reject", default_limits),
   Config(SelectSingle("up"), "Ignore", CountLimits),
   Config(SelectNone, "Ignore", default_limits),
   Config(SelectNone, "Reject", default_limits),
   Config(SelectArray("up", CountLimit), "Reject", default_limits),
   Config(SelectFields(<<FileField("up", CountLimit, {"image/*"}), TextField("pic", None)>>),
          "Reject", default_limits),
   Config(SelectFields(<<FileField("pic", None, {"image/*"}), TextField("note", 0)>>),
          "Ignore", default_limits)}

----------------------------------------------------------------------------
(* The state machine *)

\* the Multipart as one record, and back
Self ==
  [inner |-> inner, selector |-> selector, limits |-> limits,
   file_count |-> file_count, field_count |-> field_count]

\* the bodies a request may carry: a part list and its wire form, closed by
\* `--B--` CRLF or (a body of at most one part) by a bare `--B--`, and a
\* body that does not start with a boundary line
Body(ps, w) == [parts |-> ps, wire |-> w]

PlainBodies == {Body(ps, Encode(ps, TRUE)) : ps \in UNION {[1..k -> PlainParts] : k \in 0..MaxParts}}

Bodies ==
  {Body(ps, Encode(ps, TRUE)) : ps \in PartLists}
  \cup {Body(ps, Encode(ps, FALSE)) : ps \in {q \in PartLists : Len(q) <= 1}}
  \cup {Body(<<>>, Garbage)}

\* a request: a body and the configuration of the Multipart that parses it
\* a file part "pic" without Content-Type
PicPlainHeaders == <<"Di">>

\* requests whose file parts pass the selector and meet a limit of the
\* facade: "pic" as image/png and then as application/octet-stream under
\* Single("pic") with the allow-list application/*; "up" twice under
\* Array("up", CountLimit + 1) with max_files = CountLimit
CountedRequests ==
  {<<Body(ps, Encode(ps, TRUE)),
     Config(SelectSingle("pic"), "Reject",
            [default_limits EXCEPT !.allowed_mime_types = {"application/*"}])>> :
      ps \in {<<Part(ImageHeaders, Payload(1)), Part(PicPlainHeaders, Payload(1))>>}}
  \cup
  {<<Body(ps, Encode(ps, TRUE)),
     Config(SelectArray("up", CountLimit + 1), "Reject", CountLimits)>> :
      ps \in {<<Part(FileHeaders, Payload(1)), Part(FileHeaders, Payload(1))>>}}

\* requests whose file part "up" the selector ignores, under the per-part
\* size limits: a body over max_file_size, and a body within it
IgnoredFileRequests ==
  {<<Body(ps, Encode(ps, TRUE)), Config(SelectNone, "Ignore", SizeLimits)>> :
      ps \in {<<Part(FileHeaders, Payload(MaxBodyLen))>>, <<Part(FileHeaders, Payload(1))>>}}

\* bytes a client sends after the closing boundary line
Epilogue == <<"x">>

\* requests whose body goes on after the closing boundary line, without
\* limits and with max_body_size the length of the body up to the epilogue
EpilogueRequests ==
  {<<Body(ps, Encode(ps, TRUE) \o Epilogue), Config(SelectAny, "Ignore", l)>> :
      ps \in {<<Part(TextHeaders, Payload(SizeLimit))>>},
      l \in {default_limits, [default_limits EXCEPT !.max_body_size = BodyLimit]}}

Requests ==
  (Bodies \X PermissiveConfigs) \cup (PlainBodies \X SelectiveConfigs)
    \cup CountedRequests \cup IgnoredFileRequests \cup EpilogueRequests

Init ==
  /\ \E rq \in Requests :
       /\ parts = rq[1].parts
       /\ wire = rq[1].wire
       /\ limits = rq[2].limits
       /\ selector = new_selector(rq[2].selector, rq[2].unknown_field_policy)
       /\ inner = new_stream(stream_limits_of(rq[2].limits))
  /\ file_count = 0
  /\ field_count = 0
  /\ stream = [rest |-> wire, ended |-> FALSE, failed |-> FALSE]
  /\ innerOut = <<>>
  /\ out = <<>>
  /\ given = <<>>
  /\ calls = <<>>
  /\ storage = <<>>

\* this iteration of the poll loop polls the chunk source
WouldPull ==
  /\ parse_available(inner).outcome = "NeedMore"
  /\ ~inner.upstream_done

\* the chunk source after it returned up
stream_after(up) ==
  CASE up.kind = "chunk" -> [stream EXCEPT !.rest = SliceFrom(stream.rest, Len(up.bytes))]
    [] up.kind = "end" -> [stream EXCEPT !.ended = TRUE]
    [] up.kind = "err" -> [stream EXCEPT !.failed = TRUE]

\* the record of what a stream has returned, after one more iteration of its
\* poll loop: every item, and end-of-stream once for a run of calls that
\* report it
Returned(log, ret, item) ==
  IF ret = "Loop" THEN log
  ELSE IF ret = "None" /\ log # <<>> /\ log[Len(log)].tag = "None" THEN log
  ELSE Append(log, item)

\* one iteration of Multipart::poll_next in which the chunk source returns up
\* if it is polled, r = multipart_poll_next(Self, up); the consumer keeps
\* calling next_part up to MaxCalls times
Step(up, r) ==
  /\ Len(out) < MaxCalls
  /\ inner' = r.m.inner
  /\ selector' = r.m.selector
  /\ file_count' = r.m.file_count
  /\ field_count' = r.m.field_count
  /\ stream' = IF r.pulled THEN stream_after(up) ELSE stream
  /\ innerOut' = Returned(innerOut, r.inner_ret, r.inner_item)
  /\ out' = Returned(out, r.ret, r.item)
  /\ UNCHANGED <<limits, wire, parts, given, calls, storage>>

\* the parser has an item or its end: no chunk is pulled
Resolved(r) == ~WouldPull /\ Step(UpstreamEnd, r)

\* next_part returns a part
YieldPart == \E r \in {multipart_poll_next(Self, UpstreamEnd)} :
  Resolved(r) /\ r.ret = "Item" /\ r.item.tag = "Part"

\* the selector ignores the part the parser emitted; the loop continues
SkipPart == \E r \in {multipart_poll_next(Self, UpstreamEnd)} :
  Resolved(r) /\ r.ret = "Loop"

\* next_part returns an error
ReturnError == \E r \in {multipart_poll_next(Self, UpstreamEnd)} :
  Resolved(r) /\ r.ret = "Item" /\ r.item.tag = "Err"

\* next_part reports end-of-stream
ReturnNone == \E r \in {multipart_poll_next(Self, UpstreamEnd)} :
  Resolved(r) /\ r.ret = "None"

\* the chunk source yields the next k bytes of the body (k = 0: an empty chunk)
PullChunk ==
  /\ WouldPull
  /\ ~stream.ended /\ ~stream.failed
  /\ \E k \in 0..Len(stream.rest) :
       \E r \in {multipart_poll_next(Self, Chunk(SliceTo(stream.rest, k)))} :
         Step(Chunk(SliceTo(stream.rest, k)), r)

\* the chunk source reports its end, after the whole body or before
PullEnd ==
  /\ WouldPull
  /\ ~stream.ended /\ ~stream.failed
  /\ \E r \in {multipart_poll_next(Self, UpstreamEnd)} : Step(UpstreamEnd, r)

\* the chunk source yields an error
PullError ==
  /\ WouldPull
  /\ ~stream.ended /\ ~stream.failed
  /\ \E r \in {multipart_poll_next(Self, UpstreamErr)} : Step(UpstreamErr, r)

Next ==
  \/ YieldPart
  \/ SkipPart
  \/ ReturnError
  \/ ReturnNone
  \/ PullChunk
  \/ PullEnd
  \/ PullError

Spec == Init /\ [][Next]_vars

\* next_part called again and again on a chunk source that answers every
\* poll and is finite: a step that can be taken is eventually taken
FairSpec == Spec /\ WF_vars(Next)

----------------------------------------------------------------------------
(* The selector engine on its own: a SelectorEngine is built from a       *)
(* selector and a policy, and a caller evaluates field names on it.        *)

\* most evaluations on one engine
MaxEvals == MaxParts + 1

\* the field names a caller evaluates
FieldNames == {"up", "pic", "note", "doc"}

\* the selectors an engine is built from: "up" is capped everywhere it is
\* selected, "pic" is a file field with no cap, "note" a text field, "doc"
\* is declared nowhere
SelectorChoices ==
  {SelectSingle("up"), SelectArray("up", CountLimit + 1),
   SelectFields(<<FileField("up", CountLimit, {}), FileField("pic", None, {}),
                  TextField("note", None)>>),
   SelectNone, SelectAny}

\* one application: the function, its argument, and what it returned
Call(fn, arg, result) == [fn |-> fn, arg |-> arg, result |-> result]

\* the Multipart of a request that is not being parsed
Idle ==
  /\ limits = default_limits
  /\ inner = new_stream(stream_limits_of(default_limits))
  /\ file_count = 0
  /\ field_count = 0
  /\ wire = <<>>
  /\ parts = <<>>
  /\ stream = [rest |-> <<>>, ended |-> FALSE, failed |-> FALSE]
  /\ innerOut = <<>>
  /\ out = <<>>

SelectorInit ==
  /\ \E sel \in SelectorChoices, policy \in {"Reject", "Ignore"} :
       selector = new_selector(sel, policy)
  /\ Idle
  /\ given = <<>>
  /\ calls = <<>>
  /\ storage = <<>>

\* the caller evaluates a file field name
EvaluateFile ==
  /\ Len(calls) < MaxEvals
  /\ \E name \in FieldNames :
       \E e \in {evaluate_file_field(selector, name)} :
         /\ selector' = e.engine
         /\ calls' = Append(calls, Call("evaluate_file_field", name,
                                        [action |-> e.action, err |-> e.err]))
  /\ UNCHANGED <<inner, limits, file_count, field_count, stream, wire, parts,
                 innerOut, out, given, storage>>

\* the caller evaluates a text field name
EvaluateText ==
  /\ Len(calls) < MaxEvals
  /\ \E name \in FieldNames :
       \E e \in {evaluate_text_field(selector, name)} :
         /\ selector' = e.engine
         /\ calls' = Append(calls, Call("evaluate_text_field", name,
                                        [action |-> e.action, err |-> e.err]))
  /\ UNCHANGED <<inner, limits, file_count, field_count, stream, wire, parts,
                 innerOut, out, given, storage>>

SelectorNext == EvaluateFile \/ EvaluateText

SelectorSpec == SelectorInit /\ [][SelectorNext]_vars

----------------------------------------------------------------------------
(* The boundary on its own: extracted from a Content-Type value, or       *)
(* supplied by the caller to Multipart::new / with_config.                 *)
(*                                                                         *)
(* A Content-Type value is a sequence of tokens: the media type, then     *)
(* optionally the token "; boundary=" and the characters of the value,    *)
(* between double quotes or bare. A boundary is a sequence of characters. *)

MAX_BOUNDARY_LEN == 70

\* longest boundary that is enumerated character by character
ShortLen == 2

DQUOTE == "\""
SPACE == " "
BoundaryParam == "; boundary="

\* a result: Ok(value) or Err(ParseError::new(message))
Ok(value) == [ok |-> TRUE, value |-> value, message |-> ""]
Err(message) == [ok |-> FALSE, value |-> <<>>, message |-> message]

\* is_boundary_char
is_boundary_char(c) ==
  \/ c \in {"a", "Z", "7"}
  \/ c \in {"'", "(", ")", "+", "_", ",", "-", ".", "/", ":", "=", "?", SPACE}

\* a validate_boundary with no maximum length
validate_boundary_no_max(b) ==
  IF b = <<>> THEN Err("multipart boundary cannot be empty")
  ELSE IF b[Len(b)] = SPACE THEN Err("multipart boundary cannot end with whitespace")
  ELSE IF \E i \in 1..Len(b) : ~is_boundary_char(b[i])
  THEN Err("multipart boundary contains invalid characters")
  ELSE Ok(<<>>)

\* validate_boundary
validate_boundary(b) ==
  IF b = <<>> THEN Err("multipart boundary cannot be empty")
  ELSE IF Len(b) > MAX_BOUNDARY_LEN
  THEN Err("multipart boundary cannot exceed 70 characters")
  ELSE IF b[Len(b)] = SPACE THEN Err("multipart boundary cannot end with whitespace")
  ELSE IF \E i \in 1..Len(b) : ~is_boundary_char(b[i])
  THEN Err("multipart boundary contains invalid characters")
  ELSE Ok(<<>>)

\* the media types of the Content-Type values, and Mime::essence_str of each
MediaTypes == {"multipart/form-data", "Multipart/Form-Data", "application/json"}
media_essence(m) ==
  CASE m \in {"multipart/form-data", "Multipart/Form-Data"} -> "multipart/form-data"
    [] m = "application/json" -> "application/json"

\* a character a bare parameter value may hold (an HTTP token character)
is_token(c) == c \in {"a", "Z", "7", "'", "+", "_", "-", "."}

\* content_type.parse::<mime::Mime>() and get_param("boundary"): the
\* essence and the boundary parameter, the quotes of a quoted value removed
parse_mime(h) ==
  IF h = <<>> \/ h[1] \notin MediaTypes THEN [valid |-> FALSE]
  ELSE IF Len(h) = 1
  THEN [valid |-> TRUE, essence |-> media_essence(h[1]), has_boundary |-> FALSE,
        boundary |-> <<>>]
  ELSE IF h[2] # BoundaryParam THEN [valid |-> FALSE]
  ELSE IF Len(h) >= 4 /\ h[3] = DQUOTE /\ h[Len(h)] = DQUOTE
  THEN [valid |-> TRUE, essence |-> media_essence(h[1]), has_boundary |-> TRUE,
        boundary |-> SubSeq(h, 4, Len(h) - 1)]
  ELSE IF Len(h) = 2 \/ \E i \in 3..Len(h) : ~is_token(h[i]) THEN [valid |-> FALSE]
  ELSE [valid |-> TRUE, essence |-> media_essence(h[1]), has_boundary |-> TRUE,
        boundary |-> SubSeq(h, 3, Len(h))]

\* extract_multipart_boundary
extract_multipart_boundary(content_type) ==
  Only({IF ~mime.valid THEN Err("invalid Content-Type header")
        ELSE IF mime.essence # "multipart/form-data"
        THEN Err("Content-Type must be multipart/form-data")
        ELSE IF ~mime.has_boundary THEN Err("missing multipart boundary parameter")
        ELSE IF ~validate_boundary(mime.boundary).ok THEN validate_boundary(mime.boundary)
        ELSE Ok(mime.boundary) :
          mime \in {parse_mime(content_type)}})

\* validate_boundary_input
validate_boundary_input(b) ==
  IF b = <<>> THEN Err("multipart boundary cannot be empty")
  ELSE IF (\E i \in 1..Len(b) : b[i] = CR) \/ (\E i \in 1..Len(b) : b[i] = LF)
  THEN Err("multipart boundary cannot contain CRLF")
  ELSE Ok(<<>>)

\* MultipartStream::with_limits, as far as the boundary decides it: the
\* boundary the parser is built with, or the error of the construction
with_limits(b) ==
  IF ~validate_boundary_input(b).ok THEN validate_boundary_input(b) ELSE Ok(b)

\* the characters boundaries are written with: a letter, a hyphen, two more
\* characters of the class, one outside it; and CR, LF for a supplied one
ExtractedChars == {"a", "-", "=", SPACE, "@"}
SuppliedChars == ExtractedChars \cup {CR, LF}

Strings(chars, n) == UNION {[1..k -> chars] : k \in 0..n}
Run(n) == [i \in 1..n |-> "a"]
LongBoundaries == {Run(MAX_BOUNDARY_LEN - 1), Run(MAX_BOUNDARY_LEN), Run(MAX_BOUNDARY_LEN + 1)}

\* the Content-Type values a request may carry: no value, a media type with
\* no parameter, with a quoted boundary, with a bare boundary
ContentTypeValues ==
  {<<>>} \cup {<<m>> : m \in MediaTypes}
  \cup {<<m, BoundaryParam, DQUOTE>> \o b \o <<DQUOTE>> :
          m \in MediaTypes, b \in Strings(ExtractedChars, ShortLen) \cup LongBoundaries}
  \cup {<<m, BoundaryParam>> \o b :
          m \in MediaTypes, b \in (Strings({"a", "-", "@"}, ShortLen) \ {<<>>}) \cup LongBoundaries}

\* the boundaries a caller may supply
SuppliedBoundaries == Strings(SuppliedChars, ShortLen) \cup LongBoundaries

BoundaryInit ==
  /\ given \in {[kind |-> "content_type", value |-> h] : h \in ContentTypeValues}
             \cup {[kind |-> "boundary", value |-> b] : b \in SuppliedBoundaries}
  /\ calls = <<>>
  /\ storage = <<>>
  /\ selector = new_selector(SelectAny, "Ignore")
  /\ Idle

\* the boundary is extracted from the Content-Type value
ExtractBoundary ==
  /\ given.kind = "content_type"
  /\ calls = <<>>
  /\ calls' = <<Call("extract_multipart_boundary", given.value,
                     extract_multipart_boundary(given.value))>>
  /\ UNCHANGED <<inner, selector, limits, file_count, field_count, stream, wire, parts,
                 innerOut, out, given, storage>>

\* a Multipart is constructed with the boundary the caller supplies
ConstructWithBoundary ==
  /\ given.kind = "boundary"
  /\ calls = <<>>
  /\ calls' = <<Call("with_limits", given.value, with_limits(given.value))>>
  /\ UNCHANGED <<inner, selector, limits, file_count, field_count, stream, wire, parts,
                 innerOut, out, given, storage>>

BoundaryNext == ExtractBoundary \/ ConstructWithBoundary

BoundarySpec == BoundaryInit /\ [][BoundaryNext]_vars

----------------------------------------------------------------------------
(* Construction from a configuration: MulterBuilder::build,               *)
(* Multer::with_config and Multipart::with_config.                         *)

\* MulterConfig::validate
validate_config(config) ==
  IF config.selector.kind = "Array" /\ config.selector.max_count = 0
  THEN Err("InvalidArrayMaxCount")
  ELSE Ok(<<>>)

\* a Multer::with_config that does not validate
multer_with_config_unchecked(config) == Ok(config)

\* Multer::with_config: the Multer (its configuration), or the config error
multer_with_config(config) ==
  IF ~validate_config(config).ok THEN validate_config(config) ELSE Ok(config)

\* MulterBuilder::build
build(config) == multer_with_config(config)

\* Multipart::with_config: the configuration is validated, then the parser
\* is constructed with the boundary; the chunk source is stored, not polled
multipart_with_config(b, config) ==
  IF ~validate_config(config).ok THEN validate_config(config)
  ELSE IF ~with_limits(b).ok THEN with_limits(b)
  ELSE Ok([inner |-> new_stream(stream_limits_of(config.limits)),
           selector |-> new_selector(config.selector, config.unknown_field_policy),
           limits |-> config.limits, file_count |-> 0, field_count |-> 0])

\* the configurations a builder is given: every selector shortcut, array()
\* with each max_count from 0, both policies, each choice of limits
BuilderSelectors ==
  {SelectSingle(n) : n \in FieldNames}
  \cup {SelectArray(n, m) : n \in FieldNames, m \in 0..(CountLimit + 1)}
  \cup {SelectFields(<<FileField("up", CountLimit, {}), TextField("note", None)>>),
        SelectNone, SelectAny}
BuilderConfigs ==
  {Config(sel, policy, lim) :
     sel \in BuilderSelectors, policy \in {"Reject", "Ignore"}, lim \in LimitChoices}

\* a configuration and a request body that waits in its chunk source
BuildInit ==
  /\ given \in BuilderConfigs
  /\ calls = <<>>
  /\ storage = <<>>
  /\ parts = <<Part(FileHeaders, Payload(1))>>
  /\ wire = Encode(parts, TRUE)
  /\ stream = [rest |-> wire, ended |-> FALSE, failed |-> FALSE]
  /\ limits = default_limits
  /\ selector = new_selector(SelectAny, "Ignore")
  /\ inner = new_stream(stream_limits_of(default_limits))
  /\ file_count = 0
  /\ field_count = 0
  /\ innerOut = <<>>
  /\ out = <<>>

\* builder.build() with the configuration
Build ==
  /\ calls = <<>>
  /\ calls' = <<Call("build", given, build(given))>>
  /\ UNCHANGED <<inner, selector, limits, file_count, field_count, stream, wire, parts,
                 innerOut, out, given, storage>>

\* Multipart::with_config(boundary, stream, config): on success the
\* Multipart exists, with its parser, selector, limits and counters
MultipartWithConfig ==
  /\ calls = <<>>
  /\ \E r \in {multipart_with_config(boundary, given)} :
       /\ calls' = <<Call("Multipart::with_config", given, [r EXCEPT !.value = <<>>])>>
       /\ IF r.ok
          THEN /\ inner' = r.value.inner
               /\ selector' = r.value.selector
               /\ limits' = r.value.limits
               /\ file_count' = r.value.file_count
               /\ field_count' = r.value.field_count
          ELSE UNCHANGED <<inner, selector, limits, file_count, field_count>>
  /\ UNCHANGED <<stream, wire, parts, innerOut, out, given, storage>>

BuildNext == Build \/ MultipartWithConfig

BuildSpec == BuildInit /\ [][BuildNext]_vars

----------------------------------------------------------------------------
(* A memory storage shared by requests (HashMapStorage of                 *)
(* examples/custom_storage.rs): a blob table behind a read/write lock.     *)
(* Each request stores its file parts one after the other; the store      *)
(* calls of different requests interleave at their .await points.          *)

\* most file parts one request stores
MaxStores == 2

\* the requests that share the storage
Uploads == {1, 2}

\* the field names of the file parts a request stores, in order
UploadFields == UNION {[1..k -> {"up", "pic"}] : k \in 1..MaxStores}

\* format!("{}-{}", field_name, n)
storage_key(field_name, n) == <<field_name, "-", n>>

\* HashMap::insert: a later value replaces the one under the same key
insert(files, key, content) ==
  [k \in DOMAIN files \cup {key} |-> IF k = key THEN content ELSE files[k]]

\* files: the blob table. store[u]: the store call of request u: todo = the
\* fields still to store, pc = its position, key and content = its locals,
\* stored = the storage keys of the StoredFile values returned so far
MemoryInit ==
  /\ \E todo \in [Uploads -> UploadFields] :
       storage = [files |-> <<>>,
                  store |-> [u \in Uploads |->
                               [todo |-> todo[u], pc |-> "key", key |-> <<>>,
                                content |-> <<>>, stored |-> <<>>]]]
  /\ selector = new_selector(SelectAny, "Ignore")
  /\ Idle
  /\ given = <<>>
  /\ calls = <<>>

\* a store call touches nothing but the storage
StorageOnly ==
  UNCHANGED <<inner, selector, limits, file_count, field_count, stream, wire, parts,
              innerOut, out, given, calls>>

\* let key = format!(.., self.files.read().await.len()): the read lock is
\* taken for the length and released at the end of the statement
StoreKey(u) ==
  /\ storage.store[u].pc = "key"
  /\ storage.store[u].todo # <<>>
  /\ storage' = [storage EXCEPT
       !.store[u].key = storage_key(Head(storage.store[u].todo),
                                    Cardinality(DOMAIN storage.files)),
       !.store[u].pc = "bytes"]
  /\ StorageOnly

\* let content = part.bytes().await?: the body of the part is collected
StoreBytes(u) ==
  /\ storage.store[u].pc = "bytes"
  /\ storage' = [storage EXCEPT
       !.store[u].content = <<u, Len(storage.store[u].stored) + 1>>,
       !.store[u].pc = "insert"]
  /\ StorageOnly

\* self.files.write().await.insert(key, content); Ok(StoredFile { .. })
StoreInsert(u) ==
  /\ storage.store[u].pc = "insert"
  /\ storage' = [storage EXCEPT
       !.files = insert(storage.files, storage.store[u].key, storage.store[u].content),
       !.store[u].stored = Append(@, storage.store[u].key),
       !.store[u].todo = Tail(@),
       !.store[u].pc = "key"]
  /\ StorageOnly

MemoryNext == \E u \in Uploads : StoreKey(u) \/ StoreBytes(u) \/ StoreInsert(u)

MemorySpec == MemoryInit /\ [][MemoryNext]_vars

-----------------------------------------------------------------------------
(* DiskStorage: filename sanitization, the filter gate and the write
   procedure, one store call through Multer::store *)

NUL == "NUL"
CTL == "CTL"

ControlBytes == {NUL, CTL}
Separators == {"/", "\\"}
Disallowed == {"<", ">", ":", DQUOTE, "|", "?", "*"}

strip(s, chars) == SelectSeq(s, LAMBDA c : c \notin chars)

\* removes every non-overlapping ".." from the left
RECURSIVE strip_dotdot(_)
strip_dotdot(s) ==
  IF Len(s) < 2 THEN s
  ELSE IF s[1] = "." /\ s[2] = "." THEN strip_dotdot(SubSeq(s, 3, Len(s)))
  ELSE <<s[1]>> \o strip_dotdot(Tail(s))

RECURSIVE collapse_whitespace(_)
collapse_whitespace(s) ==
  IF Len(s) < 2 THEN s
  ELSE IF s[1] = SPACE /\ s[2] = SPACE THEN collapse_whitespace(Tail(s))
  ELSE <<s[1]>> \o collapse_whitespace(Tail(s))

\* the name after the stripping steps, before the substitution for an empty one
stripped(input) ==
  collapse_whitespace(
    strip(strip(strip_dotdot(strip(strip(input, {NUL}), Separators)),
                ControlBytes), Disallowed))

sanitize_filename(input, uuid) ==
  IF stripped(input) = <<>> THEN uuid ELSE stripped(input)

Uuids == {<<"u">>, <<"v">>}

MaxNameLen == 3
NameChars == {NUL, CTL, "/", "\\", ".", ":", SPACE, "a"}
Names == Strings(NameChars, MaxNameLen)

SanitizeInit ==
  /\ given \in Names
  /\ calls = <<>>
  /\ storage = <<>>
  /\ selector = new_selector(SelectAny, "Ignore")
  /\ Idle

Sanitize ==
  /\ calls = <<>>
  /\ \E uuid \in Uuids :
       calls' = <<Call("sanitize_filename", given, sanitize_filename(given, uuid))>>
  /\ UNCHANGED <<inner, selector, limits, file_count, field_count, stream, wire,
                 parts, innerOut, out, given, storage>>

SanitizeNext == Sanitize

SanitizeSpec == SanitizeInit /\ [][SanitizeNext]_vars

\* .destination(&root)
Destination == "root"

NoFilter == "<no filter>"
Filters == {NoFilter, "not reject.txt"}
RejectTxt == <<"r">>

\* the configured predicate over the file's metadata
filter(f, meta) == meta.file_name # RejectTxt

FileMeta(field_name, file_name, content_type) ==
  [field_name |-> field_name, file_name |-> file_name,
   content_type |-> content_type]

FilenameStrategies == {"Keep", "Random"}

filename(strategy, incoming, uuid) ==
  IF strategy = "Keep" THEN sanitize_filename(incoming, uuid) ELSE uuid

\* Display of a storage error wraps the cause text
to_string(err) == <<"storage error: ">> \o err.message

multer_store_opaque(result) ==
  IF result.ok THEN result ELSE Err(<<"storage error">>)

\* Multer::store: the backend's error becomes MulterError::Storage
multer_store(result) ==
  IF result.ok THEN result ELSE Err(to_string(result))

MaxChunks == 2
ChunkItems == {Ok(<<"x">>), Err(<<"stream error">>)}
ChunkStreams == Strings(ChunkItems, MaxChunks)
DiskFileNames == {RejectTxt, <<"k">>, <<".", ".", "/", "k", ":">>}

DiskInit ==
  /\ \E dirs \in {{}, {Destination}}, todo \in ChunkStreams :
       storage = [dirs |-> dirs, files |-> <<>>, pc |-> "filter",
                  path |-> <<>>, size |-> 0, todo |-> todo, result |-> <<>>]
  /\ \E f \in Filters, strategy \in FilenameStrategies,
        file_name \in DiskFileNames :
       given = [filter |-> f, filename |-> strategy,
                meta |-> FileMeta("upload", file_name, "text/plain")]
  /\ calls = <<>>
  /\ selector = new_selector(SelectAny, "Ignore")
  /\ Idle

DiskOnly ==
  UNCHANGED <<inner, selector, limits, file_count, field_count, stream, wire,
              parts, innerOut, out, given, calls>>

\* the filter gate
DiskFilter ==
  /\ storage.pc = "filter"
  /\ IF given.filter # NoFilter /\ ~filter(given.filter, given.meta)
     THEN storage' = [storage EXCEPT
                        !.pc = "done",
                        !.result = multer_store(Err(<<"filter rejected">>))]
     ELSE storage' = [storage EXCEPT !.pc = "mkdir"]
  /\ DiskOnly

\* create the destination directory if it does not exist
DiskCreateDir ==
  /\ storage.pc = "mkdir"
  /\ storage' = [storage EXCEPT !.pc = "open", !.dirs = @ \cup {Destination}]
  /\ DiskOnly

\* open a new file at destination / filename
DiskOpen ==
  /\ storage.pc = "open"
  /\ \E uuid \in Uuids :
       \E name \in {filename(given.filename, given.meta.file_name, uuid)} :
         storage' = [storage EXCEPT !.pc = "write", !.path = name,
                                    !.files = insert(@, name, <<>>)]
  /\ DiskOnly

\* stream one chunk to the file; a chunk error deletes the partial file
DiskWrite ==
  /\ storage.pc = "write"
  /\ storage.todo # <<>>
  /\ IF Head(storage.todo).ok
     THEN storage' = [storage EXCEPT
                        !.todo = Tail(@),
                        !.files[storage.path] = @ \o Head(storage.todo).value,
                        !.size = @ + Len(Head(storage.todo).value)]
     ELSE storage' = [storage EXCEPT
                        !.pc = "done",
                        !.todo = Tail(@),
                        !.files = <<>>,
                        !.result = multer_store(Err(Head(storage.todo).message))]
  /\ DiskOnly

DiskFinish ==
  /\ storage.pc = "write"
  /\ storage.todo = <<>>
  /\ storage' = [storage EXCEPT
                   !.pc = "done",
                   !.result = multer_store(Ok(
                      [storage_key |-> storage.path,
                       field_name |-> given.meta.field_name,
                       file_name |-> given.meta.file_name,
                       content_type |-> given.meta.content_type,
                       size |-> storage.size,
                       path |-> <<Destination, storage.path>>]))]
  /\ DiskOnly

DiskNext ==
  \/ DiskFilter
  \/ DiskCreateDir
  \/ DiskOpen
  \/ DiskWrite
  \/ DiskFinish

DiskSpec == DiskInit /\ [][DiskNext]_vars

----------------------------------------------------------------------------
(* Vocabulary of the properties *)

IsPart(item) == item.tag = "Part"
IsErr(item, kinds) == item.tag = "Err" /\ item.kind \in kinds

\* the parts among the items of a log, in the order they were returned
PartsOf(log) == SelectSeq(log, IsPart)

IsPrefix(a, b) == Len(a) <= Len(b) /\ SubSeq(b, 1, Len(a)) = a

\* a is b with some elements left out, the order kept
RECURSIVE IsSubsequence(_, _)
IsSubsequence(a, b) ==
  IF a = <<>> THEN TRUE
  ELSE IF b = <<>> THEN FALSE
  ELSE IF Head(a) = Head(b) THEN IsSubsequence(Tail(a), Tail(b))
  ELSE IsSubsequence(a, Tail(b))

\* what a client declared for a part it sent
WireName(p) == disposition_name(p.hdr[1])
WireFileName(p) == disposition_filename(p.hdr[1])
WireIsFile(p) == WireFileName(p) # NoFileName

\* the per-part size limit the configuration gives a part a client sent
Applicable(p) == IF WireIsFile(p) THEN limits.max_file_size ELSE limits.max_field_size

\* the number of bytes of the wire through the boundary line that ends part n
WireThrough(n) ==
  Len(boundary_line) + 2 + Len(EncodeParts(SubSeq(parts, 1, n)))
  + (IF n < Len(parts) THEN 2 ELSE 4)

\* the body is well formed: every header block parses and the closing
\* boundary line ends in CRLF
ValidBody ==
  /\ wire = Encode(parts, TRUE)
  /\ \A i \in 1..Len(parts) : parts[i].hdr \notin BrokenHeaders

\* the chunk source has delivered, or can still deliver, the whole body
Undisturbed == ~stream.failed /\ (stream.ended => stream.rest = <<>>)

\* a log up to and including its first item that is not a part
RECURSIVE Outcome(_)
Outcome(log) ==
  IF log = <<>> THEN <<>>
  ELSE IF IsPart(Head(log)) THEN <<Head(log)>> \o Outcome(Tail(log))
  ELSE <<Head(log)>>

\* MultipartStream::poll_next driven to its outcome when the chunk source
\* yields pending as one chunk and then ends
RECURSIVE drive(_, _, _)
drive(s, pending, log) ==
  LET r == stream_poll_next(s, IF pending # <<>> THEN Chunk(pending) ELSE UpstreamEnd)
  IN  IF r.ret = "Loop" THEN drive(r.self, IF r.pulled THEN <<>> ELSE pending, log)
      ELSE IF r.ret = "None" THEN Append(log, EndOfStream)
      ELSE IF r.item.tag = "Err" THEN Append(log, r.item)
      ELSE drive(r.self, pending, Append(log, r.item))

\* the parts and the outcome of the body delivered as a single chunk
OneChunk == drive(new_stream(stream_limits_of(limits)), wire, <<>>)

ParseErrors ==
  {"missing opening boundary", "malformed opening boundary", "invalid part header line",
   "missing Content-Disposition header", "malformed multipart boundary", "IncompleteStream"}
SizeErrors == {"FileSizeLimitExceeded", "FieldSizeLimitExceeded"}
StreamLimitErrors == SizeErrors \cup {"BodySizeLimitExceeded"}
FacadeLimitErrors == {"FilesLimitExceeded", "FieldsLimitExceeded", "MimeTypeNotAllowed"}

----------------------------------------------------------------------------
(* Properties *)

\* C1: for a valid body, whatever the chunks the body is split into, the
\* parser returns the parts and the outcome it returns for the body delivered
\* as a single chunk: what it has returned so far is a prefix of that.
C1_ChunkingIndependent ==
  (ValidBody /\ Undisturbed) => IsPrefix(Outcome(innerOut), OneChunk)

\* C2: once the parser has returned a parse error or a stream-level limit
\* error its state is Failed, and everything it returns afterwards is
\* end-of-stream: the error is not returned a second time.
C2_ParserErrorIsTerminal ==
  \A k \in 1..Len(innerOut) :
    IsErr(innerOut[k], ParseErrors \cup StreamLimitErrors) =>
      /\ k = Len(innerOut) => inner.state = "Failed"
      /\ \A j \in (k + 1)..Len(innerOut) : innerOut[j].tag = "None"

\* C3: once next_part has returned FilesLimitExceeded, FieldsLimitExceeded or
\* MimeTypeNotAllowed, the Multipart is terminated: next_part returns no
\* later part of the same body.
C3_FacadeErrorIsTerminal ==
  \A k \in 1..Len(out) :
    IsErr(out[k], FacadeLimitErrors) =>
      \A j \in (k + 1)..Len(out) : ~IsPart(out[j])

\* C4: a body whose closing boundary line `--B--` is not followed by CRLF,
\* delivered whole by a chunk source that then ended, is parsed without an
\* error: the parser returns no malformed-boundary or IncompleteStream error,
\* and once it reports end-of-stream every part has been returned.
C4_BareCloseTolerated ==
  (/\ parts # <<>>
   /\ wire = Encode(parts, FALSE)
   /\ \A i \in 1..Len(parts) : parts[i].hdr \notin BrokenHeaders
   /\ limits = default_limits
   /\ stream.rest = <<>> /\ ~stream.failed)
  => /\ \A k \in 1..Len(innerOut) : innerOut[k].tag # "Err"
     /\ (innerOut # <<>> /\ innerOut[Len(innerOut)].tag = "None")
          => Len(PartsOf(innerOut)) = Len(parts)

\* C5: the parts are returned in wire order. The k-th item the parser returns,
\* when it is a part, follows k-1 parts and carries the headers of the k-th
\* part of the wire; when it is returned, the bytes not yet parsed are the
\* wire after the boundary line that ends that part, and the headers held
\* while a body is read are those of the next part of the wire. The parts
\* next_part returns are parts the parser returned, in the same order.
C5_WireOrder ==
  /\ \A k \in 1..Len(innerOut) :
       IsPart(innerOut[k]) =>
         /\ \A j \in 1..k : IsPart(innerOut[j])
         /\ k <= Len(parts)
         /\ innerOut[k].field_name = WireName(parts[k])
         /\ innerOut[k].file_name = WireFileName(parts[k])
  /\ IsSubsequence(PartsOf(out), PartsOf(innerOut))
  /\ (PartsOf(innerOut) # <<>> /\ inner.state \in {"Headers", "End"})
       => inner.buffer \o stream.rest = SliceFrom(wire, WireThrough(Len(PartsOf(innerOut))))
  /\ inner.state = "Body"
       => /\ Len(PartsOf(innerOut)) < Len(parts)
          /\ inner.current_headers # <<>>
          /\ inner.current_headers[1].field_name
               = WireName(parts[Len(PartsOf(innerOut)) + 1])

\* C5 witness: a second part has been returned to the consumer after a first
\* one with other headers, and the parser has reached the end of the body.
C5_SecondPartReturned ==
  /\ Len(PartsOf(out)) >= 2
  /\ out[1].field_name # out[2].field_name
  /\ inner.state = "End"

\* C6: the body of the k-th part the parser returns is exactly the body of
\* the k-th part of the wire, the bytes between the CRLF CRLF that ends its
\* headers and the CRLF of the delimiter, and the size of the stored file of a
\* file part next_part returns is the length of that body.
C6_ExactBody ==
  /\ \A k \in 1..Len(innerOut) :
       IsPart(innerOut[k]) => k <= Len(parts) /\ innerOut[k].body = parts[k].body
  /\ \A k \in 1..Len(out) :
       (IsPart(out[k]) /\ out[k].file_name # NoFileName) =>
         \E i \in 1..Len(parts) :
           /\ i <= Len(innerOut) /\ out[k] = innerOut[i]
           /\ stored_file(out[k]).size = Len(parts[i].body)

\* C6 witness: a file part whose body holds CRLF and dashes has been returned
\* whole.
C6_DashedBodyReturned ==
  \E k \in 1..Len(out) :
    /\ IsPart(out[k]) /\ out[k].file_name # NoFileName
    /\ out[k].body = DashedPayload

\* C7: for a valid body that the chunk source delivers whole, with no
\* max_body_size, the k-th part of the wire, when it has an applicable limit
\* (max_file_size with a file name, the empty one included, max_field_size
\* without), is returned iff its body is no longer than the limit; a longer
\* body gives FileSizeLimitExceeded or FieldSizeLimitExceeded with the field
\* name and the limit.
C7_DeliveredIffWithinLimit ==
  (ValidBody /\ Undisturbed /\ limits.max_body_size = None) =>
    \A k \in 1..Len(Outcome(innerOut)) :
      (k <= Len(parts) /\ Applicable(parts[k]) # None) =>
        IF Len(parts[k].body) <= Applicable(parts[k])
        THEN /\ IsPart(innerOut[k])
             /\ innerOut[k].body = parts[k].body
        ELSE innerOut[k] =
               ErrItem(IF WireIsFile(parts[k]) THEN "FileSizeLimitExceeded"
                       ELSE "FieldSizeLimitExceeded",
                       WireName(parts[k]), Applicable(parts[k]))

\* the buffer holds a body prefix, without a delimiter, whose guaranteed
\* length is over the limit of the part
OversizedPrefix ==
  /\ inner.state = "Body"
  /\ inner.current_part_max_size # None
  /\ find_subslice(inner.buffer, delimiter) = None
  /\ Len(inner.buffer) - (Len(delimiter) - 1) > inner.current_part_max_size

\* C8: early size enforcement. With an oversized prefix in the buffer the
\* next thing the parser does is return the size error of the part and enter
\* Failed, without polling the chunk source; and a chunk is appended to the
\* body of a size-limited part only while the buffer holds at most
\* L + len(delimiter) - 1 bytes of it.
C8_EarlySizeError ==
  [][/\ OversizedPrefix =>
          /\ inner'.state = "Failed"
          /\ stream' = stream
          /\ innerOut' = Append(innerOut,
                ErrItem(IF inner.current_part_is_file THEN "FileSizeLimitExceeded"
                        ELSE "FieldSizeLimitExceeded",
                        inner.current_headers[1].field_name, inner.current_part_max_size))
     /\ (/\ inner.state = "Body"
         /\ inner.current_part_max_size # None
         /\ Len(inner'.buffer) > Len(inner.buffer))
          => Len(inner.buffer) <= inner.current_part_max_size + Len(delimiter) - 1
    ]_vars

\* C8 witness: a size error has been returned while the buffer holds no
\* delimiter and the rest of the body has not been delivered.
C8_ErrorBeforeBoundary ==
  /\ innerOut # <<>>
  /\ IsErr(innerOut[Len(innerOut)], SizeErrors)
  /\ find_subslice(inner.buffer, delimiter) = None
  /\ stream.rest # <<>>
  /\ ~stream.ended

\* C9: with max_body_size set, received_body_bytes never exceeds it; it counts
\* every byte delivered as long as the total is within the limit, and the
\* buffer holds only counted bytes; once the chunk source has delivered more,
\* the parser is Failed and has returned BodySizeLimitExceeded with the limit.
C9_BodySizeBound ==
  limits.max_body_size # None =>
    /\ inner.received_body_bytes <= limits.max_body_size
    /\ Len(inner.buffer) <= inner.received_body_bytes
    /\ Len(Sent) <= limits.max_body_size => inner.received_body_bytes = Len(Sent)
    /\ Len(Sent) > limits.max_body_size =>
         /\ inner.state = "Failed"
         /\ \E k \in 1..Len(innerOut) :
              innerOut[k] = ErrItem("BodySizeLimitExceeded", "", limits.max_body_size)

\* C9 witness: a chunk was accepted, a later chunk went over the limit and
\* BodySizeLimitExceeded was returned after a part.
C9_BodyLimitHit ==
  /\ limits.max_body_size # None
  /\ Len(Sent) > limits.max_body_size
  /\ Len(innerOut) >= 2
  /\ IsPart(innerOut[1])
  /\ IsErr(innerOut[2], {"BodySizeLimitExceeded"})

\* the file parts among the items next_part returned
FilesYielded == {k \in 1..Len(out) : IsPart(out[k]) /\ out[k].file_name # NoFileName}
FilesRefused == {k \in 1..Len(out) : IsErr(out[k], {"FilesLimitExceeded"})}

\* C10: with max_files set, next_part returns at most max_files file parts;
\* the file counter counts the file parts returned and the ones refused with
\* FilesLimitExceeded, which carries max_files.
C10_MaxFiles ==
  limits.max_files # None =>
    /\ Cardinality(FilesYielded) <= limits.max_files
    /\ file_count = Cardinality(FilesYielded) + Cardinality(FilesRefused)
    /\ \A k \in FilesRefused : out[k] = ErrItem("FilesLimitExceeded", "", limits.max_files)

\* C10 witness: max_files file parts were returned and the next file part
\* was refused with FilesLimitExceeded.
C10_FileRefused ==
  /\ limits.max_files # None
  /\ Cardinality(FilesYielded) = limits.max_files
  /\ FilesRefused # {}
  /\ \A k \in FilesYielded : \E j \in FilesRefused : k < j

\* the text parts among the items next_part returned
FieldsYielded == {k \in 1..Len(out) : IsPart(out[k]) /\ out[k].file_name = NoFileName}
FieldsRefused == {k \in 1..Len(out) : IsErr(out[k], {"FieldsLimitExceeded"})}

\* C11: with max_fields set, next_part returns at most max_fields text parts;
\* the field counter counts the text parts returned and the ones refused with
\* FieldsLimitExceeded, which carries max_fields.
C11_MaxFields ==
  limits.max_fields # None =>
    /\ Cardinality(FieldsYielded) <= limits.max_fields
    /\ field_count = Cardinality(FieldsYielded) + Cardinality(FieldsRefused)
    /\ \A k \in FieldsRefused : out[k] = ErrItem("FieldsLimitExceeded", "", limits.max_fields)

\* C11 witness: max_fields text parts were returned and the next text part
\* was refused with FieldsLimitExceeded.
C11_FieldRefused ==
  /\ limits.max_fields # None
  /\ Cardinality(FieldsYielded) = limits.max_fields
  /\ FieldsRefused # {}
  /\ \A k \in FieldsYielded : \E j \in FieldsRefused : k < j

\* the content types that are image/png, whatever the case and the parameters
PngTypes == {"image/png", "IMAGE/PNG; q=1"}

\* a pattern of an allow-list matches a content type: the exact essence, or
\* type/* for its type, in any case
PatternMatches(pattern, content_type) ==
  \/ pattern \in {"image/png", "IMAGE/PNG", "image/*", "Image/*"} /\ content_type \in PngTypes
  \/ pattern \in {"text/plain", "text/*"} /\ content_type = "text/plain"
  \/ pattern \in {"application/octet-stream", "application/*"}
       /\ content_type = "application/octet-stream"

GloballyAllowed(content_type) ==
  \/ limits.allowed_mime_types = {}
  \/ \E pattern \in limits.allowed_mime_types : PatternMatches(pattern, content_type)

\* the essence of a content type a client wrote
EssenceOf(content_type) == IF content_type \in PngTypes THEN "image/png" ELSE content_type

\* C12: a file part next_part returns has a content type the global
\* allow-list allows; MimeTypeNotAllowed carries the field and the essence of a
\* content type the list does not allow; and when the selector accepts every
\* file part, a file part the parser returned is answered by the part if its
\* content type is allowed and by MimeTypeNotAllowed{field, essence} if not.
C12_GlobalMimeAllowList ==
  /\ \A k \in 1..Len(out) :
       /\ (IsPart(out[k]) /\ out[k].file_name # NoFileName)
            => GloballyAllowed(out[k].content_type)
       /\ IsErr(out[k], {"MimeTypeNotAllowed"}) => limits.allowed_mime_types # {}
  /\ selector.selector.kind = "Any" =>
       /\ Len(out) = Len(innerOut)
       /\ \A k \in 1..Len(innerOut) :
            (IsPart(innerOut[k]) /\ innerOut[k].file_name # NoFileName) =>
              IF GloballyAllowed(innerOut[k].content_type)
              THEN ~IsErr(out[k], {"MimeTypeNotAllowed"})
              ELSE out[k] = [ErrItem("MimeTypeNotAllowed", innerOut[k].field_name, None)
                               EXCEPT !.content_type = EssenceOf(innerOut[k].content_type)]

\* C12 witness: under an allow-list written in upper case, a file part
\* declared as IMAGE/PNG with a parameter has been returned.
C12_UpperCaseAllowed ==
  /\ limits.allowed_mime_types = {"IMAGE/PNG"}
  /\ \E k \in 1..Len(out) : IsPart(out[k]) /\ out[k].content_type = "IMAGE/PNG; q=1"

\* the allow-list Selector::Fields declares for the file field name; the
\* empty list for a field with no list of its own
FieldMimeTypes(name) ==
  IF selector.selector.kind = "Fields" /\ name \in DOMAIN selector.fields
     /\ selector.fields[name].kind = "File"
  THEN selector.fields[name].allowed_mime_types
  ELSE {}

\* C13: under Selector::Fields, a file part next_part returns, whose field
\* declares a non-empty allow-list, has a content type that list allows.
C13_PerFieldMimeAllowList ==
  \A k \in 1..Len(out) :
    (IsPart(out[k]) /\ out[k].file_name # NoFileName
       /\ FieldMimeTypes(out[k].field_name) # {})
      => \E pattern \in FieldMimeTypes(out[k].field_name) :
           PatternMatches(pattern, out[k].content_type)

\* the evaluations of evaluate_file_field for the name n, and the accepted ones
FileEvals(n) ==
  {k \in 1..Len(calls) : calls[k].fn = "evaluate_file_field" /\ calls[k].arg = n}
FileAccepts(n) == {k \in FileEvals(n) : calls[k].result.action = "Accept"}

\* the entries of a Fields list that declare n a file field
FileEntries(n) ==
  {i \in 1..Len(selector.selector.fields) :
     selector.selector.fields[i].name = n /\ selector.selector.fields[i].kind = "File"}

\* n is a file field name the selector selects by name
SelectedByName(n) ==
  \/ selector.selector.kind \in {"Single", "Array"} /\ selector.selector.name = n
  \/ selector.selector.kind = "Fields" /\ FileEntries(n) # {}

\* the cap of a selected name; None when it has none
CapOf(n) ==
  CASE selector.selector.kind = "Single" -> 1
    [] selector.selector.kind = "Array" -> selector.selector.max_count
    [] selector.selector.kind = "Fields" ->
         selector.selector.fields[CHOOSE i \in FileEntries(n) : TRUE].max_count

\* C14: for a name the selector selects, evaluate_file_field accepts at most
\* cap evaluations; an evaluation is accepted when fewer than cap came before
\* it (always, when there is no cap) and otherwise returns
\* FieldCountLimitExceeded{field, max_count: cap}.
C14_FieldCountCap ==
  \A n \in FieldNames : SelectedByName(n) =>
    /\ CapOf(n) # None => Cardinality(FileAccepts(n)) <= CapOf(n)
    /\ \A k \in FileEvals(n) :
         IF CapOf(n) = None \/ Cardinality({j \in FileEvals(n) : j < k}) < CapOf(n)
         THEN calls[k].result = [action |-> "Accept", err |-> EndOfStream]
         ELSE calls[k].result =
                [action |-> "Err", err |-> ErrItem("FieldCountLimitExceeded", n, CapOf(n))]

\* C14 witness: under Array{up, m} the first m evaluations of "up" were
\* accepted and one more was refused.
C14_ArrayCapReached ==
  /\ selector.selector.kind = "Array"
  /\ Cardinality(FileAccepts("up")) = selector.selector.max_count
  /\ Cardinality(FileEvals("up")) > selector.selector.max_count

\* the file field name n is unknown to the selector
Unknown(n) ==
  CASE selector.selector.kind \in {"Single", "Array"} -> selector.selector.name # n
    [] selector.selector.kind = "Fields" -> FileEntries(n) = {}
    [] selector.selector.kind = "None" -> TRUE
    [] selector.selector.kind = "Any" -> FALSE

\* an item of the parser that is a file part unknown to the selector
UnknownFilePart(item) ==
  IsPart(item) /\ item.file_name # NoFileName /\ Unknown(item.field_name)

\* the facade answers the parser's item with the item itself or with the
\* error of a limit
PassedOrLimited(item, answer) ==
  \/ answer = item
  \/ IsPart(item) /\ IsErr(answer, FacadeLimitErrors \cup SizeErrors \cup {"FieldCountLimitExceeded"})

\* C15: under Reject every item of the parser is answered in turn; a file
\* part unknown to the selector is answered by UnexpectedField{field: name},
\* and every other item, the selected file parts before it included, by the
\* item itself (or by the error of a limit that refuses it).
C15_RejectUnknown ==
  selector.unknown_field_policy = "Reject" =>
    /\ Len(out) = Len(innerOut)
    /\ \A k \in 1..Len(innerOut) :
         IF UnknownFilePart(innerOut[k])
         THEN out[k] = ErrItem("UnexpectedField", innerOut[k].field_name, None)
         ELSE PassedOrLimited(innerOut[k], out[k])

\* C15 witness: under Reject and Selector::Fields, a selected file part was
\* yielded and a later file part, declared with kind Text, was refused.
C15_YieldedThenRejected ==
  /\ selector.unknown_field_policy = "Reject"
  /\ selector.selector.kind = "Fields"
  /\ \E j, k \in 1..Len(out) :
       /\ j < k
       /\ IsPart(out[j]) /\ out[j].file_name # NoFileName
       /\ out[k] = ErrItem("UnexpectedField", "pic", None)

\* the items of the parser that are not unknown file parts
NotUnknownFilePart(item) == ~UnknownFilePart(item)
Kept == SelectSeq(innerOut, NotUnknownFilePart)

\* a step in which the parser emits a file part unknown to the selector
EmitsUnknown ==
  /\ Len(innerOut') = Len(innerOut) + 1
  /\ UnknownFilePart(innerOut'[Len(innerOut')])

\* C16: under Ignore, the step in which the parser emits an unknown file
\* part returns nothing and leaves the selector's counts, the file counter
\* and the field counter as they were; next_part returns no UnexpectedField
\* and no unknown file part, and answers the other items of the parser in
\* turn, each by the item itself or by the error of a limit.
C16_IgnoreUnknown ==
  /\ [][(selector.unknown_field_policy = "Ignore" /\ EmitsUnknown) =>
          /\ out' = out
          /\ selector' = selector
          /\ file_count' = file_count
          /\ field_count' = field_count]_vars
  /\ [](selector.unknown_field_policy = "Ignore" =>
          /\ Len(out) = Len(Kept)
          /\ \A k \in 1..Len(out) :
               /\ ~IsErr(out[k], {"UnexpectedField"})
               /\ ~UnknownFilePart(out[k])
               /\ PassedOrLimited(Kept[k], out[k]))

\* C16 witness: under Ignore the parser has emitted an unknown file part and
\* then a selected one, and next_part has returned the selected one only.
C16_SkippedThenYielded ==
  /\ selector.unknown_field_policy = "Ignore"
  /\ \E j \in 1..Len(innerOut) :
       /\ UnknownFilePart(innerOut[j])
       /\ j < Len(innerOut)
       /\ IsPart(innerOut[j + 1]) /\ innerOut[j + 1].file_name # NoFileName
       /\ out = <<innerOut[j + 1]>>

\* the Fields list declares n a text field
TextDeclared(n) ==
  \E i \in 1..Len(selector.selector.fields) :
    selector.selector.fields[i].name = n /\ selector.selector.fields[i].kind = "Text"

\* what the selector table gives for the text field name n
TextVerdict(n) ==
  IF selector.selector.kind # "Fields" \/ TextDeclared(n)
  THEN [action |-> "Accept", err |-> EndOfStream]
  ELSE IF selector.unknown_field_policy = "Reject"
  THEN [action |-> "Err", err |-> ErrItem("UnexpectedField", n, None)]
  ELSE [action |-> "Ignore", err |-> EndOfStream]

\* the step is an evaluation of evaluate_text_field
TextEvaluated ==
  /\ Len(calls') = Len(calls) + 1
  /\ calls'[Len(calls')].fn = "evaluate_text_field"

\* C17: every evaluation of evaluate_text_field returns what the selector
\* table gives (Accept under Single, Array, None and Any; under Fields Accept
\* for a name declared with kind Text and the unknown-field policy for any
\* other name), and no such evaluation changes the engine's counts.
C17_TextFieldTable ==
  /\ [](\A k \in 1..Len(calls) :
          calls[k].fn = "evaluate_text_field" => calls[k].result = TextVerdict(calls[k].arg))
  /\ [][TextEvaluated => selector'.counts = selector.counts]_vars

\* C17 witness: on a Fields engine under Reject that has counted a file
\* field, a declared text name was accepted and a name declared with kind
\* File was refused.
C17_TextAcceptedFileRefused ==
  /\ selector.selector.kind = "Fields"
  /\ selector.unknown_field_policy = "Reject"
  /\ DOMAIN selector.counts # {}
  /\ \E j, k \in 1..Len(calls) :
       /\ calls[j] = Call("evaluate_text_field", "note",
                          [action |-> "Accept", err |-> EndOfStream])
       /\ calls[k] = Call("evaluate_text_field", "up",
                          [action |-> "Err", err |-> ErrItem("UnexpectedField", "up", None)])

\* the parser has returned its outcome for the bytes delivered so far, and
\* the chunk source did not fail: Sent is the body the parser was given
Settled ==
  /\ ~stream.failed
  /\ Outcome(innerOut) # <<>>
  /\ ~IsPart(Outcome(innerOut)[Len(Outcome(innerOut))])

\* the number of bytes of the wire before the headers of part i, and through
\* the two bytes that follow the delimiter ending part i
PartStart(i) ==
  Len(boundary_line) + 2 + Len(EncodeParts(SubSeq(parts, 1, i - 1)))
  + (IF i > 1 THEN 2 ELSE 0)
PartEnd(i) ==
  PartStart(i) + Len(parts[i].hdr) + 4 + Len(parts[i].body) + Len(delimiter) + 2

\* the body the parser was given holds no opening boundary
NoOpeningBoundary == ~IsPrefix(boundary_line, Sent)

\* the body the parser was given ends inside part i of a well-formed body:
\* in its headers, in its body or inside the delimiter line that ends it
EndsInsidePart(i) ==
  /\ ValidBody
  /\ PartStart(i) < Len(Sent)
  /\ Len(Sent) < PartEnd(i)

\* the body given holds no opening boundary: missing opening boundary
C18_NoOpeningRejected ==
  (Settled /\ NoOpeningBoundary)
    => Outcome(innerOut) = <<ErrItem("missing opening boundary", "", None)>>

\* the body given ends inside part i: IncompleteStream (or the error of a
\* limit), and no more than the i-1 parts before it
C18_TruncatedRejected ==
  \A i \in 1..Len(parts) :
    (Settled /\ EndsInsidePart(i))
      => /\ IsErr(Outcome(innerOut)[Len(Outcome(innerOut))],
                  {"IncompleteStream"} \cup StreamLimitErrors)
         /\ Len(PartsOf(innerOut)) < i

\* C18: an empty body and a body with no opening boundary are rejected with
\* `missing opening boundary`; a body that ends in the middle of a part is
\* rejected with IncompleteStream; the part it ends in is not returned.
C18_BrokenBodiesRejected == C18_NoOpeningRejected /\ C18_TruncatedRejected

\* the media type of a Content-Type value is multipart/form-data, in any case
IsFormData(h) == h # <<>> /\ h[1] \in {"multipart/form-data", "Multipart/Form-Data"}

\* the boundary parameter of a Content-Type value, surrounding quotes stripped
HasBoundaryParam(h) == Len(h) >= 2 /\ h[2] = BoundaryParam
BoundaryParamOf(h) ==
  IF Len(h) >= 4 /\ h[3] = DQUOTE /\ h[Len(h)] = DQUOTE
  THEN SubSeq(h, 4, Len(h) - 1)
  ELSE SubSeq(h, 3, Len(h))

\* b is 1..70 characters of the class, the last not a space
WellFormed(b, class) ==
  /\ Len(b) >= 1 /\ Len(b) <= 70
  /\ \A i \in 1..Len(b) : b[i] \in class
  /\ b[Len(b)] # SPACE

\* the characters of the model in [A-Za-z0-9'()+_,./:=? ], and with the hyphen
ClassChars == {"a", "=", SPACE}
ClassCharsWithHyphen == ClassChars \cup {"-"}

\* every extraction accepts exactly the values with essence
\* multipart/form-data and a well-formed boundary, and returns that boundary
ExtractAcceptsIff(class) ==
  \A k \in 1..Len(calls) : calls[k].fn = "extract_multipart_boundary" =>
    /\ calls[k].result.ok <=>
         /\ IsFormData(calls[k].arg)
         /\ HasBoundaryParam(calls[k].arg)
         /\ WellFormed(BoundaryParamOf(calls[k].arg), class)
    /\ calls[k].result.ok => calls[k].result.value = BoundaryParamOf(calls[k].arg)

C20_SuppliedBoundaryValidated ==
  \A k \in 1..Len(calls) :
    (calls[k].fn = "with_limits" /\ calls[k].result.ok) =>
      /\ WellFormed(calls[k].arg, ClassCharsWithHyphen)
      /\ \A i \in 1..Len(calls[k].arg) : calls[k].arg[i] \notin {CR, LF}

\* the body look-ahead: the longest tail of the buffer that may still turn
\* out to be the start of a delimiter
LookAhead == Len(delimiter) - 1

\* the number of bytes of the chunk a step pulls
PulledLen == Len(stream.rest) - Len(stream'.rest)

\* C21: while the parser is in a part body and no delimiter is pending in
\* its buffer, the buffer holds no more than the look-ahead of
\* len(delimiter) - 1 bytes plus the chunk just pulled.
C21_BoundedBuffer ==
  [][(/\ inner.state = "Body" /\ inner'.state = "Body"
      /\ find_subslice(inner'.buffer, delimiter) = None)
       => Len(inner'.buffer) <= LookAhead + PulledLen]_vars

\* the error the chunk source yields
UpstreamError == ErrItem("Upstream", "", None)

DelimiterStart(i) == PartStart(i) + Len(parts[i].hdr) + 4 + Len(parts[i].body)

\* the bytes received so far end inside the delimiter line that ends part i:
\* in the middle of CRLF--boundary, or after it and before the end of the
\* CRLF or -- that follows
EndsInsideDelimiter(i) ==
  /\ DelimiterStart(i) < Len(Sent)
  /\ Len(Sent) < PartEnd(i)

\* C23: while the bytes received of a well-formed body end inside a
\* delimiter line and the chunk source has more to deliver, the parser has
\* returned no error.
C23_SplitDelimiterTolerated ==
  \A i \in 1..Len(parts) :
    (/\ ValidBody /\ limits = default_limits
     /\ ~stream.failed /\ ~stream.ended
     /\ EndsInsideDelimiter(i))
      => \A k \in 1..Len(innerOut) : innerOut[k].tag # "Err"

\* the step is an iteration of the poll loop that pulls an empty chunk: the
\* chunk source is polled and is after it as it was before
PullsEmptyChunk == WouldPull /\ stream' = stream

\* C24: the iteration that receives an empty chunk leaves the parser as
\* parse_available left it before the chunk source was polled (buffer, state,
\* received_body_bytes and every other field), returns nothing and changes no
\* counter; the next iteration parses as this one did.
C24_EmptyChunkNoOp ==
  [][PullsEmptyChunk =>
       /\ inner' = parse_available(inner).self
       /\ parse_available(inner') = parse_available(inner)
       /\ innerOut' = innerOut /\ out' = out
       /\ selector' = selector
       /\ file_count' = file_count /\ field_count' = field_count]_vars

\* C24 witness: an empty chunk was received right after the opening boundary
\* line: the parser waits for headers with an empty buffer, nothing returned.
C24_EmptyChunkReceived ==
  /\ inner.state = "Headers" /\ inner.buffer = <<>>
  /\ ~inner.upstream_done
  /\ ~stream.ended /\ ~stream.failed
  /\ stream.rest # <<>>
  /\ innerOut = <<>>

\* what parse_and_store has returned for the request
Result == parse_and_store(out, ProcessedMultipart)

\* the parts a client sent that are text parts, and those that are file
\* parts the selector accepts, in the order of the body
SentIsText(p) == ~WireIsFile(p)
SentIsAcceptedFile(p) == WireIsFile(p) /\ ~Unknown(WireName(p))
SentTexts == SelectSeq(parts, SentIsText)
SentFiles == SelectSeq(parts, SentIsAcceptedFile)

\* the characters of a body a client sent
SentText(body) ==
  [i \in 1..Len(body) |->
     IF body[i] = CR THEN "\r" ELSE IF body[i] = LF THEN "\n" ELSE body[i]]

\* C25: when parse_and_store returns Ok, text_fields holds the (name, text)
\* pair of every text part of the body, in the order of the body, and
\* stored_files holds the storage output of every accepted file part of the
\* body, in the order of the body; each part is in one list, once.
C25_StoredInWireOrder ==
  Result.status = "Ok" =>
    /\ Len(Result.text_fields) = Len(SentTexts)
    /\ \A k \in 1..Len(SentTexts) :
         Result.text_fields[k] = <<WireName(SentTexts[k]), SentText(SentTexts[k].body)>>
    /\ Len(Result.stored_files) = Len(SentFiles)
    /\ \A k \in 1..Len(SentFiles) :
         /\ Result.stored_files[k].field_name = WireName(SentFiles[k])
         /\ Result.stored_files[k].file_name = WireFileName(SentFiles[k])
         /\ Result.stored_files[k].size = Len(SentFiles[k].body)

\* C25 witness: parse_and_store returned Ok for a body of two file parts
\* with different names, both stored.
C25_TwoFilesStored ==
  /\ Result.status = "Ok"
  /\ Len(Result.stored_files) = 2
  /\ Result.stored_files[1].field_name # Result.stored_files[2].field_name

\* the configuration was built with array(name, 0)
ArrayOfZero(config) == config.selector.kind = "Array" /\ config.selector.max_count = 0

\* C26: build() and Multipart::with_config with a configuration made by
\* array(name, 0) return the config error InvalidArrayMaxCount and create
\* nothing, and no byte of the chunk source has been consumed; a
\* configuration made by array(name, m) with m > 0 is accepted.
C26_ArrayOfZeroRejected ==
  \A k \in 1..Len(calls) :
    /\ ArrayOfZero(calls[k].arg) =>
         /\ calls[k].result = Err("InvalidArrayMaxCount")
         /\ stream.rest = wire /\ ~stream.ended
         /\ inner.buffer = <<>> /\ inner.received_body_bytes = 0
    /\ (calls[k].arg.selector.kind = "Array" /\ ~ArrayOfZero(calls[k].arg))
         => calls[k].result.ok

\* C26 witness: Multipart::with_config was called with array("up", 0) under
\* configured limits and returned the error.
C26_ArrayOfZeroRefused ==
  /\ calls # <<>>
  /\ calls[1].fn = "Multipart::with_config"
  /\ calls[1].arg.selector = SelectArray("up", 0)
  /\ calls[1].arg.limits = CountLimits
  /\ ~calls[1].result.ok

\* the successful store calls: request u, its i-th store
Stores == {<<u, i>> : u \in Uploads, i \in 1..MaxStores}
Succeeded == {s \in Stores : s[2] <= Len(storage.store[s[1]].stored)}
KeyOf(s) == storage.store[s[1]].stored[s[2]]

\* C27: the storage keys of the successful store calls are pairwise
\* distinct, every stored blob is still in the table under its key, and the
\* table holds as many blobs as there were successful stores.
C27_UniqueStorageKeys ==
  /\ \A s, r \in Succeeded : s # r => KeyOf(s) # KeyOf(r)
  /\ \A s \in Succeeded : KeyOf(s) \in DOMAIN storage.files /\ storage.files[KeyOf(s)] = s
  /\ Cardinality(DOMAIN storage.files) = Cardinality(Succeeded)

\* the configured filter returns false for the metadata of the file
FilterRejects ==
  given.filter # NoFilter /\ ~filter(given.filter, given.meta)

HasText(message, words) == \E i \in 1..Len(message) : message[i] = words

\* C28: when the configured filter returns false for the file's metadata,
\* store fails with a storage error whose message contains "filter rejected",
\* and it does so in its first step: the destination directory is not
\* created, no file is opened and no chunk of the part is taken or written.
C28_FilterGate ==
  [][FilterRejects =>
       /\ storage'.pc = "done"
       /\ ~storage'.result.ok
       /\ HasText(storage'.result.message, "filter rejected")
       /\ storage'.dirs = storage.dirs
       /\ storage'.files = <<>>
       /\ storage'.files = storage.files
       /\ storage'.todo = storage.todo
       /\ storage'.size = 0]_vars

\* a store call the filter has refused, with the destination still missing
\* and chunks of the part still unread
C28_FilterRejected ==
  /\ FilterRejects
  /\ storage.pc = "done"
  /\ ~storage.result.ok
  /\ Destination \notin storage.dirs
  /\ storage.todo # <<>>

Sanitized == {calls[k].result : k \in 1..Len(calls)}

HasDotDot(name) ==
  \E i \in 1..(Len(name) - 1) : name[i] = "." /\ name[i + 1] = "."

\* C29: for every input, the result of sanitize_filename is a non-empty
\* single filename component: no "/", no "\", no "..", no NUL, no control
\* character and none of < > : " | ? *.
C29_SanitizedIsOneComponent ==
  \A name \in Sanitized :
    /\ name # <<>>
    /\ \A i \in 1..Len(name) :
         name[i] \notin Separators \cup ControlBytes \cup Disallowed
    /\ ~HasDotDot(name)


TerminalStates == {"End", "Failed"}

\* the moves of the parse state
Moves ==
  {<<"StartBoundary", "Headers">>, <<"StartBoundary", "End">>,
   <<"Headers", "Body">>, <<"Body", "Headers">>, <<"Body", "End">>}
    \cup {<<a, "Failed">> : a \in {"StartBoundary", "Headers", "Body"}}

MovesAlong(path) ==
  \A i \in 1..(Len(path) - 1) :
    path[i] # path[i + 1] => <<path[i], path[i + 1]>> \in Moves

\* C30: in every iteration of the poll loop, the parse state changes only
\* along StartBoundary -> Headers, StartBoundary -> End, Headers -> Body,
\* Body -> Headers, Body -> End and from a non-terminal state to Failed, each
\* state parse_available goes through counted; from End and from Failed the
\* state stays what it is and the parser returns no further part.
C30_StateMoves ==
  [][/\ MovesAlong(states_visited(inner) \o <<inner'.state>>)
     /\ inner.state \in TerminalStates =>
          /\ inner'.state = inner.state
          /\ PartsOf(innerOut') = PartsOf(innerOut)]_vars

\* the parser polled again after it returned a part and reached End
C30_PolledAtEnd ==
  /\ inner.state = "End"
  /\ PartsOf(innerOut) # <<>>
  /\ innerOut[Len(innerOut)].tag = "None"



\* the 1-based index of the first CR that LF follows, 0 when there is none
FirstLineEnd(bytes) ==
  IF \E i \in 1..(Len(bytes) - 1) : bytes[i] = CR /\ bytes[i + 1] = LF
  THEN CHOOSE i \in 1..(Len(bytes) - 1) :
         /\ bytes[i] = CR /\ bytes[i + 1] = LF
         /\ \A j \in 1..(i - 1) : ~(bytes[j] = CR /\ bytes[j + 1] = LF)
  ELSE 0

FirstLine(bytes) == SubSeq(bytes, 1, FirstLineEnd(bytes) - 1)

Last(log) == log[Len(log)]

\* C31: in StartBoundary, once the buffer holds a CRLF-terminated line, that
\* line decides. The line `--boundary` moves the parser to Headers; the line
\* `--boundary--` moves it to End, and the parser and next_part report
\* end-of-stream with no part and no error; any other line makes the parser
\* return a parse error and moves it to Failed.
C31_FirstLineDecides ==
  [][(inner.state = "StartBoundary" /\ FirstLineEnd(inner.buffer) # 0) =>
       /\ FirstLine(inner.buffer) = <<DASH, DASH>> \o boundary =>
            states_visited(inner)[2] = "Headers"
       /\ FirstLine(inner.buffer) = <<DASH, DASH>> \o boundary \o <<DASH, DASH>> =>
            /\ inner'.state = "End"
            /\ innerOut' = <<EndOfStream>>
            /\ out' = <<EndOfStream>>
       /\ FirstLine(inner.buffer) \notin
            {<<DASH, DASH>> \o boundary, <<DASH, DASH>> \o boundary \o <<DASH, DASH>>} =>
            /\ inner'.state = "Failed"
            /\ IsErr(Last(innerOut'), ParseErrors)]_vars

\* the parser at End after an empty multipart body, polled, with nothing
\* returned but end-of-stream
C31_EmptyBodyEnded ==
  /\ wire = <<DASH, DASH>> \o boundary \o <<DASH, DASH>> \o CRLF
  /\ inner.state = "End"
  /\ out = <<EndOfStream>>


At(bytes, i, word) ==
  /\ i + Len(word) - 1 <= Len(bytes)
  /\ SubSeq(bytes, i, i + Len(word) - 1) = word

HasDelimiter(bytes) ==
  \E i \in 1..Len(bytes) : At(bytes, i, CRLF \o <<DASH, DASH>> \o boundary)

\* the bytes after the first `CRLF--boundary`
AfterDelimiter(bytes) ==
  SubSeq(bytes,
         Len(delimiter) + CHOOSE i \in 1..Len(bytes) :
           /\ At(bytes, i, CRLF \o <<DASH, DASH>> \o boundary)
           /\ \A j \in 1..(i - 1) : ~At(bytes, j, CRLF \o <<DASH, DASH>> \o boundary),
         Len(bytes))

\* `CRLF--` followed by a complete line that is not a boundary line
StrayDashLine(bytes) ==
  \E i \in 1..Len(bytes) : \E j \in (i + 2)..Len(bytes) :
    /\ At(bytes, i, CRLF \o <<DASH, DASH>>)
    /\ At(bytes, j, CRLF)
    /\ \A k \in (i + 2)..(j - 1) : ~At(bytes, k, CRLF)
    /\ SubSeq(bytes, i + 2, j - 1) \notin
         {<<DASH, DASH>> \o boundary, <<DASH, DASH>> \o boundary \o <<DASH, DASH>>}

\* the early size check rejects the part
EarlySizeReject ==
  /\ inner.current_part_max_size # None
  /\ Len(inner.buffer) - (Len(delimiter) - 1) > inner.current_part_max_size

\* the step fails the parser with `malformed multipart boundary`, no part returned
MalformedStep ==
  /\ inner'.state = "Failed"
  /\ innerOut' = Append(innerOut, ErrItem("malformed multipart boundary", "", None))

\* the suffix of the delimiter is none of `--CRLF`, `CRLF`, `--` at end-of-stream
BadSuffix ==
  /\ ~At(AfterDelimiter(inner.buffer), 1, <<DASH, DASH>> \o CRLF)
  /\ ~At(AfterDelimiter(inner.buffer), 1, CRLF)
  /\ ~(inner.upstream_done /\ AfterDelimiter(inner.buffer) = <<DASH, DASH>>)

\* C32 as stated: in Body, a buffer without a delimiter that holds `CRLF--`
\* followed by a complete line that is neither boundary line makes the parser
\* return `malformed multipart boundary` and enter Failed; with a delimiter in
\* the buffer a suffix other than `--CRLF`, `CRLF` or `--` at end-of-stream
\* does the same, and the part before it is not returned.
C32_MalformedDetected ==
  [][inner.state = "Body" =>
       /\ (~HasDelimiter(inner.buffer) /\ StrayDashLine(inner.buffer)) => MalformedStep
       /\ (HasDelimiter(inner.buffer) /\ BadSuffix) => MalformedStep]_vars

\* C32, amended: the same, for a buffer without a delimiter provided the early
\* size check does not reject the part first.
C32_MalformedAfterSizeCheck ==
  [][inner.state = "Body" =>
       /\ (~HasDelimiter(inner.buffer) /\ StrayDashLine(inner.buffer)
           /\ ~EarlySizeReject) => MalformedStep
       /\ (HasDelimiter(inner.buffer) /\ BadSuffix) => MalformedStep]_vars

\* the parser failed with `malformed multipart boundary` on a dashed line,
\* no delimiter in its buffer
C32_DashedLineRejected ==
  /\ inner.state = "Failed"
  /\ innerOut # <<>>
  /\ IsErr(Last(innerOut), {"malformed multipart boundary"})
  /\ ~HasDelimiter(inner.buffer)
  /\ StrayDashLine(inner.buffer)


\* the size cap the selector declares for the text field of this name, None
\* when it declares none
DeclaredTextCap(name) ==
  IF /\ selector.selector.kind = "Fields"
     /\ \E i \in 1..Len(selector.selector.fields) :
          /\ selector.selector.fields[i].name = name
          /\ selector.selector.fields[i].kind = "Text"
          /\ selector.selector.fields[i].max_size # None
  THEN (CHOOSE f \in {selector.selector.fields[i] : i \in 1..Len(selector.selector.fields)} :
          f.name = name /\ f.kind = "Text" /\ f.max_size # None).max_size
  ELSE None

\* C33: a text part next_part returns, whose field the selector declares
\* with max_size = s, has a body of at most s bytes.
C33_TextFieldMaxSize ==
  \A k \in 1..Len(out) :
    (/\ IsPart(out[k])
     /\ out[k].file_name = NoFileName
     /\ DeclaredTextCap(out[k].field_name) # None)
    => Len(out[k].body) <= DeclaredTextCap(out[k].field_name)


\* the part of the wire the parser was reading when it returned innerOut[k]
PartRead(k) == parts[Len(PartsOf(SubSeq(innerOut, 1, k - 1))) + 1]

\* C34: whatever the chunks, the parser returns FileSizeLimitExceeded or
\* FieldSizeLimitExceeded only while it reads a part whose complete body is
\* longer than the limit that applies to it.
C34_NoEarlyFalsePositive ==
  (wire \in {Encode(parts, TRUE), Encode(parts, FALSE)}) =>
    \A k \in 1..Len(innerOut) :
      IsErr(innerOut[k], SizeErrors) =>
        /\ Len(PartsOf(SubSeq(innerOut, 1, k - 1))) < Len(parts)
        /\ Applicable(PartRead(k)) # None
        /\ Len(PartRead(k).body) > Applicable(PartRead(k))

\* the parser has looked at a buffer longer than the limit, the delimiter not
\* in it, while reading a part whose complete body is within the limit, and
\* has asked for more
C34_LookAheadOverLimit ==
  /\ inner.state = "Body"
  /\ inner.upstream_done
  /\ inner.current_part_max_size # None
  /\ Len(inner.buffer) > inner.current_part_max_size
  /\ ~HasDelimiter(inner.buffer)
  /\ innerOut = <<>>
  /\ parts # <<>>
  /\ Len(parts[1].body) <= inner.current_part_max_size


CountOf(counts, n) == IF n \in DOMAIN counts THEN counts[n] ELSE 0

\* C35: an evaluation never lowers a count nor removes one, and no count
\* exceeds the cap of its name. An evaluation changes the counts only when it
\* is an evaluate_file_field that returns Accept under a selector other than
\* Any, and then it adds one to the count of its name and leaves the others;
\* every other evaluation (an error, Ignore, under Any, of a text field)
\* leaves the counts as they were.
C35_CountsMonotoneBounded ==
  [][/\ \A n \in DOMAIN selector.counts :
          n \in DOMAIN selector'.counts /\ selector'.counts[n] >= selector.counts[n]
     /\ \A n \in DOMAIN selector'.counts :
          /\ SelectedByName(n)
          /\ CapOf(n) # None => selector'.counts[n] <= CapOf(n)
     /\ IF /\ Last(calls').fn = "evaluate_file_field"
           /\ Last(calls').result.action = "Accept"
           /\ selector.selector.kind # "Any"
        THEN \A n \in FieldNames :
               CountOf(selector'.counts, n) =
                 CountOf(selector.counts, n) + (IF n = Last(calls').arg THEN 1 ELSE 0)
        ELSE selector'.counts = selector.counts]_vars

\* an engine that has accepted a counted file field up to its cap and then
\* refused it
C35_RefusedAtCap ==
  /\ calls # <<>>
  /\ Last(calls).fn = "evaluate_file_field"
  /\ IsErr(Last(calls).result.err, {"FieldCountLimitExceeded"})
  /\ CountOf(selector.counts, Last(calls).arg) = CapOf(Last(calls).arg)


\* this step, the parser returns a file part
ParserReturnsFile ==
  /\ Len(innerOut') = Len(innerOut) + 1
  /\ IsPart(Last(innerOut'))
  /\ Last(innerOut').file_name # NoFileName

\* next_part has returned MimeTypeNotAllowed for a file part of this name
MimeRefused(name) ==
  \E k \in 1..Len(out) : IsErr(out[k], {"MimeTypeNotAllowed"}) /\ out[k].field_name = name

\* C36: when next_part returns MimeTypeNotAllowed, FilesLimitExceeded or
\* FileSizeLimitExceeded for a file part whose name the selector selects, the
\* selector has counted the part: the count of its name is one more than
\* before; the file counter is as before when the error is
\* MimeTypeNotAllowed. Under Single{F}, the next file part named F the
\* parser returns after a MimeTypeNotAllowed for F is refused with
\* FieldCountLimitExceeded{F, 1}.
C36_CountedBeforeLimits ==
  [][ParserReturnsFile =>
       /\ (/\ Len(out') = Len(out) + 1
           /\ IsErr(Last(out'), {"MimeTypeNotAllowed", "FilesLimitExceeded",
                                 "FileSizeLimitExceeded"})
           /\ SelectedByName(Last(innerOut').field_name))
          => /\ CountOf(selector'.counts, Last(innerOut').field_name) =
                  CountOf(selector.counts, Last(innerOut').field_name) + 1
             /\ Last(out').kind = "MimeTypeNotAllowed" => file_count' = file_count
       /\ (/\ selector.selector.kind = "Single"
           /\ selector.selector.name = Last(innerOut').field_name
           /\ MimeRefused(Last(innerOut').field_name))
          => out' = Append(out, ErrItem("FieldCountLimitExceeded",
                                        Last(innerOut').field_name, 1))]_vars

\* under Single{"pic"} a file "pic" of a type that is not allowed was
\* refused, and the file "pic" of an allowed type that follows it was refused
\* with FieldCountLimitExceeded; no file was counted
C36_ValidFileRefused ==
  /\ selector.selector.kind = "Single"
  /\ Len(out) = 2
  /\ IsErr(out[1], {"MimeTypeNotAllowed"})
  /\ out[2] = ErrItem("FieldCountLimitExceeded", "pic", 1)
  /\ is_mime_allowed(limits, PartsOf(innerOut)[2].content_type)
  /\ file_count = 0


\* this step, the parser returns a text part
ParserReturnsText ==
  /\ Len(innerOut') = Len(innerOut) + 1
  /\ IsPart(Last(innerOut'))
  /\ Last(innerOut').file_name = NoFileName

OversizedIgnored(i) ==
  /\ ValidBody
  /\ selector.unknown_field_policy = "Ignore"
  /\ WireIsFile(parts[i])
  /\ Unknown(WireName(parts[i]))
  /\ limits.max_file_size # None
  /\ Len(parts[i].body) > limits.max_file_size

\* C38: a file part the selector ignores, whose body is longer than
\* max_file_size, is not skipped: the parser never returns it, and once the
\* parser has stopped on it, the chunk source having delivered the body
\* without an error, the parser and next_part have returned
\* FileSizeLimitExceeded{field, max_file_size}.
C38_IgnoredFileSizeLimited ==
  \A i \in 1..Len(parts) : OversizedIgnored(i) =>
    /\ Len(PartsOf(innerOut)) < i
    /\ (/\ Len(PartsOf(innerOut)) = i - 1
        /\ inner.state \in TerminalStates
        /\ Undisturbed)
       => /\ \E k \in 1..Len(innerOut) : innerOut[k] =
               ErrItem("FileSizeLimitExceeded", WireName(parts[i]), limits.max_file_size)
          /\ \E k \in 1..Len(out) : out[k] =
               ErrItem("FileSizeLimitExceeded", WireName(parts[i]), limits.max_file_size)


\* the number of bytes of the wire through the closing boundary line
ClosedLen == Len(Encode(parts, TRUE))

\* the wire goes on after the closing boundary line
HasEpilogue ==
  /\ Len(wire) > ClosedLen
  /\ SubSeq(wire, 1, ClosedLen) = Encode(parts, TRUE)

\* the chunk source is polled only by a parser that is not in End or Failed
\* and whose buffered bytes give neither an item nor the end; a parser in
\* End or Failed takes no byte and returns nothing but end-of-stream
PullsWhenNeeded ==
  /\ stream' # stream =>
       /\ inner.state \notin TerminalStates
       /\ parse_available(inner).outcome = "NeedMore"
  /\ inner.state \in TerminalStates =>
       /\ stream' = stream
       /\ inner'.buffer = inner.buffer
       /\ inner'.received_body_bytes = inner.received_body_bytes
       /\ innerOut' \in {innerOut, Append(innerOut, EndOfStream)}

\* C39 as stated: the parser pulls a chunk only when parse_available returned
\* NeedMore and pulls nothing once it is in End or Failed; the bytes that
\* follow the closing boundary line are never pulled nor counted against
\* max_body_size, and a body that is within max_body_size up to its closing
\* boundary line is not refused with BodySizeLimitExceeded.
C39_NothingPastClosingBoundary ==
  /\ [][PullsWhenNeeded]_vars
  /\ [](HasEpilogue =>
          /\ Len(Sent) <= ClosedLen
          /\ inner.received_body_bytes <= ClosedLen
          /\ (limits.max_body_size # None /\ ClosedLen <= limits.max_body_size)
               => \A k \in 1..Len(innerOut) :
                    ~IsErr(innerOut[k], {"BodySizeLimitExceeded"}))

\* C39, amended: the parser pulls a chunk only when parse_available returned
\* NeedMore and pulls nothing once it is in End or Failed; the bytes still
\* unread when the parser reaches End or Failed are never pulled, parsed or
\* counted, and after End the parser returns nothing but end-of-stream.
C39_NothingPulledOnceDone ==
  [][PullsWhenNeeded]_vars

\* the parser polled at End while the chunk source still holds the bytes
\* that follow the closing boundary line
C39_EpilogueLeftUnread ==
  /\ HasEpilogue
  /\ inner.state = "End"
  /\ Last(innerOut) = EndOfStream
  /\ Len(Sent) = ClosedLen
  /\ ~stream.ended


\* once the parser is in End or Failed it stays there, and the parser and
\* next_part return nothing but end-of-stream
StaysDone ==
  inner.state \in TerminalStates =>
    /\ inner'.state \in TerminalStates
    /\ innerOut' \in {innerOut, Append(innerOut, EndOfStream)}
    /\ out' \in {out, Append(out, EndOfStream)}

\* C40: on a chunk source that eventually ends or fails, calling next_part
\* again and again brings the parser to End or Failed, where it stays and
\* from where only end-of-stream is returned: the parser does not stay in a
\* non-terminal state for ever nor return items without end.
C40_Terminates ==
  /\ <>(inner.state \in TerminalStates)
  /\ [][StaysDone]_vars

====
